---- MODULE Spec2Model ----
(***************************************************************************)
(* Model of the sirpi-gcp-backend orchestration and deployment pipeline.   *)
(*                                                                         *)
(* The module holds several specifications over one set of variables, one  *)
(* per subsystem; an action of one subsystem leaves the variables of the   *)
(* others unchanged:                                                       *)
(*   SpecWf       SirpiOrchestrator.execute and run_workflow               *)
(*                (src/src/agentcore/orchestrator.py)                      *)
(*   SpecHub      the log stream hub: the queue registry, the publishing   *)
(*                calls and log_stream_generator                           *)
(*                (src/src/api/deployment_logs.py)                         *)
(*   SpecDep      the build, plan, apply and destroy handlers and their    *)
(*                sandbox scope (src/src/api/aws_deployments.py)           *)
(*   SpecBackend  the Terraform state backend managers                     *)
(*                (gcs_state_manager.py, s3_state_manager.py)              *)
(*   SpecCreds    the credential brokers (_get_credentials)                *)
(***************************************************************************)
EXTENDS Integers, Sequences, FiniteSets, TLC

(***************************************************************************)
(* Bounds of the model (not program constants).                            *)
(***************************************************************************)
\* number of Terraform files the generation collaborator may return
MaxTfFiles == 2
\* number of deployment operations that publish, one after the other
MaxOps == 2
\* number of lines one operation publishes
MaxLines == 2
\* number of times the client connects to the log stream
MaxConnections == 2
\* number of callers of the state backend manager
MaxCallers == 2
\* number of credential broker instances
MaxBrokers == 2
\* number of _get_credentials calls on one broker
MaxCalls == 3

(***************************************************************************)
(* Values shared by the subsystems.                                        *)
(***************************************************************************)
None == "None"

VARIABLES
    \* ---- SirpiOrchestrator.execute / run_workflow ----
    pc,               \* position of execute (and of the run_workflow it awaits)
    hasSession,       \* whether execute was given a session dict
    status,           \* WorkflowState.status ("NoState" before the state exists)
    error,            \* WorkflowState.error
    analysis_result,  \* WorkflowState.analysis_result is set
    dockerfile_task,  \* the Dockerfile generation awaitable handed to gather
    terraform_task,   \* the Terraform generation thread handed to gather
    gather_exc,       \* the exception asyncio.gather propagated (first failure)
    generated_terraform, \* WorkflowState.generated_terraform (file names, in order)
    stage_logs,       \* execute: stage_logs, per stage the levels of its lines
    stage_timers,     \* execute: stages that have a start time
    stage_saves,      \* calls of save_stage, per stage, in order
    session_status,   \* session["status"]
    session_error,    \* session["error"]
    failed_stage,     \* execute: failed_stage of the exception handler
    exc,              \* the exception execute's handler caught (str(e))
    gen_record,       \* durable generation record: status and error
    gen_updates,      \* calls of update_generation_status, in order
    project_record,   \* durable project generation status
    storage,          \* objects stored under {owner}/{repo}/ : <<path, run>>
    delete_calls,     \* calls of delete_repository_files
    uploaded,         \* paths handed to upload_file that were stored, in order
    \* ---- deployment_logs: the log stream hub ----
    active_deployments, \* _active_deployments: id -> queue object (or None)
    queues,           \* the asyncio.Queue objects, by identity
    opRun,            \* number of the publishing operation (0: none yet)
    opPc,             \* position of the publishing operation
    opDep,            \* the deployment id the operation publishes under
    sent,             \* per operation, the lines it passed to send_log
    subPc,            \* position of log_stream_generator
    subDep,           \* log_stream_generator: deployment_id
    subQueue,         \* log_stream_generator: queue (None before line 74)
    wait_count,       \* log_stream_generator: iterations of the wait loop
    timeout_count,    \* log_stream_generator: timeout_count
    frames,           \* the data frames the generator yielded, in order
    last_yield,       \* the last item the generator yielded
    exit_cause,       \* why the generator ended
    connections,      \* number of generators started so far
    unregister_calls, \* unregister_deployment calls of the current generator
    \* ---- aws_deployments: the build, plan, apply and destroy handlers ----
    requests,         \* number of requests handled or in progress
    handler,          \* the handler running: build, plan, apply or destroy
    hPc,              \* position of the handler
    hStep,            \* index of the next step of the handler
    hExc,             \* the exception in flight in the handler (or None)
    response,         \* what the last request answered
    sandbox_state,    \* SandboxManager: none, created, ready or closed
    release_count,    \* times the sandbox environment was released
    commands,         \* the commands issued to the sandbox, in order
    late_commands,    \* commands issued to a sandbox that was not ready
    collected_logs,   \* collected_logs of the handler
    send_tasks,       \* the send_log tasks created and not yet run
    deployment_logs,  \* the records written by save_deployment_logs
    deployment_status,\* the project's deployment status
    terraform_outputs,\* projects.terraform_outputs
    application_url,  \* projects.application_url
    outputs,          \* what the last apply read and returned as 'outputs'
    nonzero_exits,    \* the steps of this request whose command exited non-zero
    cleanup,          \* what the last cleanup_state call did
    \* ---- gcs_state_manager / s3_state_manager: the state backend ----
    provider,         \* the backend the callers use: gcs or s3
    buckets,          \* the buckets that exist at the storage provider
    created,          \* per bucket name, the create calls that succeeded
    api_enabled,      \* whether the Cloud Storage API is enabled
    bPc,              \* per caller, its position in ensure_*_state_bucket
    bAccount,         \* per caller, the cloud account (GCP project) it uses
    bResult,          \* per caller, what its call returned or raised
    \* ---- _get_credentials: the credential brokers ----
    constructed,      \* the broker instances constructed so far
    credentials,      \* per broker, self._credentials
    issued,           \* number of bundles assume_role has issued
    assume_calls,     \* per broker, its assume_role calls
    calls,            \* per broker, its _get_credentials calls
    returned,         \* per broker, the bundles its calls returned
    \* ---- stream_agent_logs: the agent log stream of a session ----
    alPc,             \* position of the generator
    agent_logs,       \* the rows of agent_logs for the session, by timestamp
    rows,             \* rows = cur.fetchall() of the historical query
    row_index,        \* the historical row being yielded
    listen_conn,      \* conn: none, open or closed
    listen_cur,       \* cur is set
    listening,        \* LISTEN agent_logs_{session_id} is in force on conn
    notifies,         \* notifications delivered to conn and not yet popped
    events,           \* the events the generator has yielded
    elapsed,          \* seconds since start_time
    unlisten_calls,   \* UNLISTEN statements executed
    close_calls,      \* conn.close() calls
    stream_exit,      \* why the generator ended
    propagated,       \* the exception that left the generator
    \* ---- the Terraform directory of a plan, apply or destroy ----
    tfPc,             \* position: write, setup, init, done
    tf_files,         \* tf_files: the uploaded .tf files, name -> content
    tf_pending,       \* the names the write loop has not reached yet
    tf_dir,           \* the files of the Terraform directory in the sandbox
    \* ---- the stored GCP OAuth credentials ----
    gcp_row,          \* the row of gcp_credentials for the user
    gcp_call,         \* the function that has been called: none, check, get
    gcp_result        \* what the call answered

wfVars == <<pc, hasSession, status, error, analysis_result, dockerfile_task,
            terraform_task, gather_exc, generated_terraform, stage_logs,
            stage_timers, stage_saves, session_status, session_error,
            failed_stage, exc, gen_record, gen_updates, project_record,
            storage, delete_calls, uploaded>>

hubVars == <<active_deployments, queues, opRun, opPc, opDep, sent, subPc,
             subDep, subQueue, wait_count, timeout_count, frames, last_yield,
             exit_cause, connections, unregister_calls>>

depVars == <<requests, handler, hPc, hStep, hExc, response, sandbox_state,
             release_count, commands, late_commands, collected_logs,
             send_tasks, deployment_logs, deployment_status,
             terraform_outputs, application_url, outputs, nonzero_exits,
             cleanup>>

backendVars == <<provider, buckets, created, api_enabled, bPc, bAccount,
                 bResult>>

credVars == <<constructed, credentials, issued, assume_calls, calls, returned>>

alVars == <<alPc, agent_logs, rows, row_index, listen_conn, listen_cur,
            listening, notifies, events, elapsed, unlisten_calls, close_calls,
            stream_exit, propagated>>

tfVars == <<tfPc, tf_files, tf_pending, tf_dir>>

gcpVars == <<gcp_row, gcp_call, gcp_result>>

vars == <<wfVars, hubVars, depVars, backendVars, credVars, alVars, tfVars,
         gcpVars>>

(***************************************************************************)
(* SirpiOrchestrator.execute and run_workflow                              *)
(***************************************************************************)
Stages == <<"analyze", "ai_analysis", "generate", "upload">>
StageSet == {Stages[i] : i \in 1..Len(Stages)}

\* names of the Terraform files a template may produce, in dictionary order
TfFileNames == <<"main.tf", "variables.tf", "outputs.tf">>

\* the file sets the Terraform generation collaborator may return
TerraformResults == {SubSeq(TfFileNames, 1, n) : n \in 1..MaxTfFiles}

\* objects of an earlier run that may be stored under the repository prefix
OldObjects == {<<"Dockerfile", "old">>, <<"ecs.tf", "old">>}

\* log(agent, message, level, stage): append the line to the stage's list
Log(logs, stage, level) ==
    IF stage \in StageSet THEN [logs EXCEPT ![stage] = Append(@, level)]
    ELSE logs

\* save_stage(stage, status): one call of save_workflow_stage_logs with the
\* lines the stage holds; a failure of the call is logged and swallowed (ok)
SaveStage(saves, logs, stage, st, ok) ==
    [saves EXCEPT ![stage] =
        Append(@, [status |-> st, lines |-> Len(logs[stage]), stored |-> ok])]

\* (mutant of LogToSessionRaises: the insert's exception escapes)
LogToSessionRaises_escapes == TRUE

\* _log_to_session: the insert runs inside try/except Exception, so the call
\* never raises into run_workflow
LogToSessionRaises == FALSE

\* (mutant of GatherReturns: a race, the first result wins)
GatherReturns_race ==
    dockerfile_task = "done" \/ terraform_task = "done"

\* asyncio.gather(dockerfile_task, terraform_task) returns the pair of results
GatherReturns ==
    dockerfile_task = "done" /\ terraform_task = "done"

\* asyncio.gather propagates the first exception of its awaitables
GatherRaises == gather_exc # None

InitWf ==
    /\ pc = "ex_start"
    /\ hasSession \in BOOLEAN
    /\ status = "NoState"
    /\ error = None
    /\ analysis_result = FALSE
    /\ dockerfile_task = "idle"
    /\ terraform_task = "idle"
    /\ gather_exc = None
    /\ generated_terraform = <<>>
    /\ stage_logs = [s \in StageSet |-> <<>>]
    /\ stage_timers = {}
    /\ stage_saves = [s \in StageSet |-> <<>>]
    /\ session_status = "PENDING"
    /\ session_error = None
    /\ failed_stage = None
    /\ exc = None
    /\ gen_record = [status |-> "started", error |-> None]
    /\ gen_updates = <<>>
    /\ project_record = "pending"
    /\ storage \in SUBSET OldObjects
    /\ delete_calls = 0
    /\ uploaded = <<>>

\* execute, lines 552-580: session to ANALYZING, the analyze stage's first
\* lines, parse_github_url (may raise), the ai_analysis stage's first line,
\* then the call of run_workflow
ExStart ==
    /\ UNCHANGED <<hubVars, depVars, backendVars, credVars, alVars, tfVars, gcpVars>>
    /\ pc = "ex_start"
    /\ session_status' = IF hasSession THEN "ANALYZING" ELSE session_status
    /\ \E parsed \in BOOLEAN :
        IF parsed
        THEN /\ stage_timers' = {"analyze", "ai_analysis"}
             /\ stage_logs' =
                  Log(Log(Log(Log(stage_logs, "analyze", "INFO"),
                      "analyze", "INFO"), "analyze", "INFO"),
                      "ai_analysis", "INFO")
             /\ pc' = "rw_create"
             /\ exc' = exc
        ELSE /\ stage_timers' = {"analyze"}
             /\ stage_logs' = Log(stage_logs, "analyze", "INFO")
             /\ pc' = "ex_handler"
             /\ exc' = "parse_error"
    /\ UNCHANGED <<hasSession, status, error, analysis_result, dockerfile_task,
                   terraform_task, gather_exc, generated_terraform,
                   stage_saves, session_error, failed_stage, gen_record, gen_updates,
                   project_record, storage, delete_calls, uploaded>>

\* run_workflow, lines 145-149: the WorkflowState is created
RwCreate ==
    /\ UNCHANGED <<hubVars, depVars, backendVars, credVars, alVars, tfVars, gcpVars>>
    /\ pc = "rw_create"
    /\ status' = "PENDING"
    /\ pc' = "rw_fetch"
    /\ UNCHANGED <<hasSession, error, analysis_result, dockerfile_task,
                   terraform_task, gather_exc, generated_terraform, stage_logs,
                   stage_timers, stage_saves, session_status, session_error,
                   failed_stage, exc, gen_record, gen_updates, project_record, storage,
                   delete_calls, uploaded>>

\* run_workflow, lines 153-207: status ANALYZING, then the repository is
\* fetched through the GitHub API (may raise)
RwFetch ==
    /\ UNCHANGED <<hubVars, depVars, backendVars, credVars, alVars, tfVars, gcpVars>>
    /\ pc = "rw_fetch"
    /\ status' = "ANALYZING"
    /\ \E ok \in BOOLEAN :
        /\ pc' = IF ok THEN "rw_analyze" ELSE "rw_except"
        /\ gather_exc' = gather_exc
        /\ exc' = IF ok THEN exc ELSE "fetch_error"
    /\ UNCHANGED <<hasSession, error, analysis_result, dockerfile_task,
                   terraform_task, generated_terraform, stage_logs,
                   stage_timers, stage_saves, session_status, session_error,
                   failed_stage, gen_record, gen_updates, project_record, storage,
                   delete_calls, uploaded>>

\* (mutant of RwAnalyze: a failed analysis is followed by the generation)
RwAnalyze_lenient ==
    /\ UNCHANGED <<hubVars, depVars, backendVars, credVars, alVars, tfVars, gcpVars>>
    /\ pc = "rw_analyze"
    /\ \E ok \in BOOLEAN :
        /\ pc' = "rw_generate"
        /\ analysis_result' = ok
        /\ exc' = IF ok THEN exc ELSE "analysis_error"
    /\ UNCHANGED <<hasSession, status, error, dockerfile_task, terraform_task,
                   gather_exc, generated_terraform, stage_logs, stage_timers,
                   stage_saves, session_status, session_error, failed_stage,
                   gen_record, gen_updates, project_record, storage, delete_calls,
                   uploaded>>

\* run_workflow, lines 209-254: the analysis collaborator (may raise)
RwAnalyze ==
    /\ UNCHANGED <<hubVars, depVars, backendVars, credVars, alVars, tfVars, gcpVars>>
    /\ pc = "rw_analyze"
    /\ \E ok \in BOOLEAN :
        /\ pc' = IF ok THEN "rw_generate" ELSE "rw_except"
        /\ analysis_result' = ok
        /\ exc' = IF ok THEN exc ELSE "analysis_error"
    /\ UNCHANGED <<hasSession, status, error, dockerfile_task, terraform_task,
                   gather_exc, generated_terraform, stage_logs, stage_timers,
                   stage_saves, session_status, session_error, failed_stage,
                   gen_record, gen_updates, project_record, storage, delete_calls,
                   uploaded>>

\* run_workflow, lines 256-283: status GENERATING, both generation tasks are
\* handed to asyncio.gather, which starts them together
RwGenerate ==
    /\ UNCHANGED <<hubVars, depVars, backendVars, credVars, alVars, tfVars, gcpVars>>
    /\ pc = "rw_generate"
    /\ status' = "GENERATING"
    /\ dockerfile_task' = "running"
    /\ terraform_task' = "running"
    /\ pc' = "rw_gather"
    /\ UNCHANGED <<hasSession, error, analysis_result, gather_exc,
                   generated_terraform, stage_logs, stage_timers, stage_saves,
                   session_status, session_error, failed_stage, exc,
                   gen_record, gen_updates, project_record, storage, delete_calls,
                   uploaded>>

\* dockerfile_generator.generate finishes: a result or an exception
DockerfileTaskEnds ==
    /\ UNCHANGED <<hubVars, depVars, backendVars, credVars, alVars, tfVars, gcpVars>>
    /\ dockerfile_task = "running"
    /\ \E ok \in BOOLEAN :
        /\ dockerfile_task' = IF ok THEN "done" ELSE "failed"
        /\ gather_exc' = IF ~ok /\ gather_exc = None /\ pc = "rw_gather"
                         THEN "dockerfile_error" ELSE gather_exc
    /\ UNCHANGED <<pc, hasSession, status, error, analysis_result,
                   terraform_task, generated_terraform, stage_logs,
                   stage_timers, stage_saves, session_status, session_error,
                   failed_stage, exc, gen_record, gen_updates, project_record, storage,
                   delete_calls, uploaded>>

\* terraform_generator.generate (in its thread) finishes: the file set of the
\* template, or ValueError("Failed to generate Terraform: ...")
TerraformTaskEnds ==
    /\ UNCHANGED <<hubVars, depVars, backendVars, credVars, alVars, tfVars, gcpVars>>
    /\ terraform_task = "running"
    /\ \E ok \in BOOLEAN :
        /\ terraform_task' = IF ok THEN "done" ELSE "failed"
        /\ gather_exc' = IF ~ok /\ gather_exc = None /\ pc = "rw_gather"
                         THEN "terraform_error" ELSE gather_exc
    /\ UNCHANGED <<pc, hasSession, status, error, analysis_result,
                   dockerfile_task, generated_terraform, stage_logs,
                   stage_timers, stage_saves, session_status, session_error,
                   failed_stage, exc, gen_record, gen_updates, project_record, storage,
                   delete_calls, uploaded>>

\* run_workflow, lines 283-306: gather returned both results
RwGatherReturn ==
    /\ UNCHANGED <<hubVars, depVars, backendVars, credVars, alVars, tfVars, gcpVars>>
    /\ pc = "rw_gather"
    /\ GatherReturns
    /\ \E files \in TerraformResults : generated_terraform' = files
    /\ pc' = "rw_success"
    /\ UNCHANGED <<hasSession, status, error, analysis_result, dockerfile_task,
                   terraform_task, gather_exc, stage_logs, stage_timers,
                   stage_saves, session_status, session_error, failed_stage,
                   exc, gen_record, gen_updates, project_record, storage, delete_calls,
                   uploaded>>

\* run_workflow, line 283: gather raised the first exception of its tasks;
\* the other task is left running
RwGatherRaise ==
    /\ UNCHANGED <<hubVars, depVars, backendVars, credVars, alVars, tfVars, gcpVars>>
    /\ pc = "rw_gather"
    /\ GatherRaises
    /\ exc' = gather_exc
    /\ pc' = "rw_except"
    /\ UNCHANGED <<hasSession, status, error, analysis_result, dockerfile_task,
                   terraform_task, gather_exc, generated_terraform, stage_logs,
                   stage_timers, stage_saves, session_status, session_error,
                   failed_stage, gen_record, gen_updates, project_record, storage,
                   delete_calls, uploaded>>

\* run_workflow, lines 308-319: status SUCCESS, the final _log_to_session,
\* return state
RwSuccess ==
    /\ UNCHANGED <<hubVars, depVars, backendVars, credVars, alVars, tfVars, gcpVars>>
    /\ pc = "rw_success"
    /\ status' = "SUCCESS"
    /\ pc' = "rw_final_log"
    /\ UNCHANGED <<hasSession, error, analysis_result, dockerfile_task,
                   terraform_task, gather_exc, generated_terraform, stage_logs,
                   stage_timers, stage_saves, session_status, session_error,
                   failed_stage, exc, gen_record, gen_updates, project_record, storage,
                   delete_calls, uploaded>>

RwFinalLog ==
    /\ UNCHANGED <<hubVars, depVars, backendVars, credVars, alVars, tfVars, gcpVars>>
    /\ pc = "rw_final_log"
    /\ IF LogToSessionRaises
       THEN pc' = "rw_except" /\ exc' = "log_error"
       ELSE pc' = "ex_after_workflow" /\ exc' = exc
    /\ UNCHANGED <<hasSession, status, error, analysis_result, dockerfile_task,
                   terraform_task, gather_exc, generated_terraform, stage_logs,
                   stage_timers, stage_saves, session_status, session_error,
                   failed_stage, gen_record, gen_updates, project_record, storage,
                   delete_calls, uploaded>>

\* run_workflow, lines 321-331: except Exception: status FAILED with str(e),
\* return state
RwExcept ==
    /\ UNCHANGED <<hubVars, depVars, backendVars, credVars, alVars, tfVars, gcpVars>>
    /\ pc = "rw_except"
    /\ status' = "FAILED"
    /\ error' = exc
    /\ exc' = None
    /\ pc' = "ex_after_workflow"
    /\ UNCHANGED <<hasSession, analysis_result, dockerfile_task, terraform_task,
                   gather_exc, generated_terraform, stage_logs, stage_timers,
                   stage_saves, session_status, session_error, failed_stage,
                   gen_record, gen_updates, project_record, storage, delete_calls,
                   uploaded>>


\* the files execute hands to upload_file, in order (lines 663-683)
FilesToUpload == <<"Dockerfile">> \o generated_terraform

\* execute, lines 595-605: run_workflow returned FAILED: the error line goes
\* to ai_analysis, both analysis stages are saved with status error, and the
\* error is raised into execute's own handler
ExWorkflowFailed ==
    /\ UNCHANGED <<hubVars, depVars, backendVars, credVars, alVars, tfVars, gcpVars>>
    /\ pc = "ex_after_workflow"
    /\ status = "FAILED"
    /\ \E ok1, ok2 \in BOOLEAN :
        LET logs == Log(stage_logs, "ai_analysis", "ERROR")
        IN /\ stage_logs' = logs
           /\ stage_saves' =
                SaveStage(SaveStage(stage_saves, logs, "analyze", "error", ok1),
                          logs, "ai_analysis", "error", ok2)
    /\ exc' = error
    /\ pc' = "ex_handler"
    /\ UNCHANGED <<hasSession, status, error, analysis_result, dockerfile_task,
                   terraform_task, gather_exc, generated_terraform,
                   stage_timers, session_status, session_error, failed_stage,
                   gen_record, gen_updates, project_record, storage, delete_calls,
                   uploaded>>

\* execute, lines 607-661: the analysis lines, analyze and ai_analysis saved
\* with status success, then the whole generate stage (its lines, its save)
\* and session GENERATING
ExStagesDone ==
    /\ UNCHANGED <<hubVars, depVars, backendVars, credVars, alVars, tfVars, gcpVars>>
    /\ pc = "ex_after_workflow"
    /\ status # "FAILED"
    /\ \E ok1, ok2, ok3 \in BOOLEAN :
        LET logsA == IF analysis_result
                     THEN Log(Log(Log(stage_logs, "ai_analysis", "INFO"),
                              "ai_analysis", "INFO"), "ai_analysis", "INFO")
                     ELSE stage_logs
            savesA == SaveStage(SaveStage(stage_saves, logsA, "analyze",
                                "success", ok1),
                                logsA, "ai_analysis", "success", ok2)
            logsG0 == Log(Log(logsA, "generate", "INFO"), "generate", "INFO")
            logsG == IF analysis_result
                     THEN Log(Log(Log(logsG0, "generate", "INFO"),
                              "generate", "INFO"), "generate", "INFO")
                     ELSE logsG0
        IN /\ stage_logs' = logsG
           /\ stage_saves' = SaveStage(savesA, logsG, "generate", "success", ok3)
    /\ stage_timers' = stage_timers \cup {"generate"}
    /\ session_status' = IF hasSession THEN "GENERATING" ELSE session_status
    /\ pc' = "ex_upload"
    /\ UNCHANGED <<hasSession, status, error, analysis_result, dockerfile_task,
                   terraform_task, gather_exc, generated_terraform,
                   session_error, failed_stage, exc, gen_record, gen_updates,
                   project_record, storage, delete_calls, uploaded>>

\* execute, lines 685-692: the upload stage starts: its timer, its first
\* line, then get_gcs_storage (constructing the service may raise)
ExUploadBegin ==
    /\ UNCHANGED <<hubVars, depVars, backendVars, credVars, alVars, tfVars, gcpVars>>
    /\ pc = "ex_upload"
    /\ stage_timers' = stage_timers \cup {"upload"}
    /\ stage_logs' = Log(stage_logs, "upload", "INFO")
    /\ \E ok \in BOOLEAN :
        /\ pc' = IF ok THEN "ex_delete" ELSE "ex_handler"
        /\ exc' = IF ok THEN exc ELSE "storage_error"
    /\ UNCHANGED <<hasSession, status, error, analysis_result, dockerfile_task,
                   terraform_task, gather_exc, generated_terraform,
                   stage_saves, session_status, session_error, failed_stage,
                   gen_record, gen_updates, project_record, storage, delete_calls,
                   uploaded>>

\* execute, lines 694-699, and GCSStorageService.delete_repository_files:
\* listing the prefix may raise; each blob's delete may fail on its own (the
\* blob stays and is not counted); a line is logged when the count is > 0
ExDeleteOld ==
    /\ UNCHANGED <<hubVars, depVars, backendVars, credVars, alVars, tfVars, gcpVars>>
    /\ pc = "ex_delete"
    /\ \/ /\ \E kept \in SUBSET storage :
              /\ storage' = kept
              /\ stage_logs' = IF Cardinality(storage \ kept) > 0
                               THEN Log(stage_logs, "upload", "INFO")
                               ELSE stage_logs
          /\ delete_calls' = delete_calls + 1
          /\ pc' = "ex_upload_file"
          /\ exc' = exc
       \/ /\ pc' = "ex_handler"
          /\ exc' = "storage_error"
          /\ UNCHANGED <<storage, stage_logs, delete_calls>>
    /\ UNCHANGED <<hasSession, status, error, analysis_result, dockerfile_task,
                   terraform_task, gather_exc, generated_terraform,
                   stage_timers, stage_saves, session_status, session_error,
                   failed_stage, gen_record, gen_updates, project_record, uploaded>>

\* execute, lines 701-709: one iteration of the upload loop: upload_file
\* (may raise) stores {owner}/{repo}/{path}, then the file's line is logged
ExUploadFile ==
    /\ UNCHANGED <<hubVars, depVars, backendVars, credVars, alVars, tfVars, gcpVars>>
    /\ pc = "ex_upload_file"
    /\ Len(uploaded) < Len(FilesToUpload)
    /\ LET path == FilesToUpload[Len(uploaded) + 1]
       IN \E ok \in BOOLEAN :
            IF ok
            THEN /\ storage' = (storage \ {<<path, "old">>}) \cup {<<path, "new">>}
                 /\ uploaded' = Append(uploaded, path)
                 /\ stage_logs' = Log(stage_logs, "upload", "INFO")
                 /\ UNCHANGED <<pc, exc>>
            ELSE /\ pc' = "ex_handler"
                 /\ exc' = "upload_error"
                 /\ UNCHANGED <<storage, uploaded, stage_logs>>
    /\ UNCHANGED <<hasSession, status, error, analysis_result, dockerfile_task,
                   terraform_task, gather_exc, generated_terraform,
                   stage_timers, stage_saves, session_status, session_error,
                   failed_stage, gen_record, gen_updates, project_record, delete_calls>>

\* execute, lines 711-721: the loop is over: the closing line, the upload
\* stage saved with status success, session COMPLETED
ExUploadDone ==
    /\ UNCHANGED <<hubVars, depVars, backendVars, credVars, alVars, tfVars, gcpVars>>
    /\ pc = "ex_upload_file"
    /\ Len(uploaded) = Len(FilesToUpload)
    /\ \E ok \in BOOLEAN :
        LET logs == Log(stage_logs, "upload", "INFO")
        IN /\ stage_logs' = logs
           /\ stage_saves' = SaveStage(stage_saves, logs, "upload", "success", ok)
    /\ session_status' = IF hasSession THEN "COMPLETED" ELSE session_status
    /\ pc' = "ex_update_db"
    /\ UNCHANGED <<hasSession, status, error, analysis_result, dockerfile_task,
                   terraform_task, gather_exc, generated_terraform,
                   stage_timers, session_error, failed_stage, exc, gen_record, gen_updates,
                   project_record, storage, delete_calls, uploaded>>

\* execute, lines 723-733: update_generation_status(COMPLETED) (may raise)
ExUpdateDb ==
    /\ UNCHANGED <<hubVars, depVars, backendVars, credVars, alVars, tfVars, gcpVars>>
    /\ pc = "ex_update_db"
    /\ \E ok \in BOOLEAN :
        /\ gen_updates' = Append(gen_updates,
              [status |-> "completed", error |-> None, stored |-> ok])
        /\ IF ok
           THEN /\ gen_record' = [status |-> "completed", error |-> None]
                /\ pc' = "ex_update_project"
                /\ exc' = exc
           ELSE /\ gen_record' = gen_record
                /\ pc' = "ex_handler"
                /\ exc' = "db_error"
    /\ UNCHANGED <<hasSession, status, error, analysis_result, dockerfile_task,
                   terraform_task, gather_exc, generated_terraform, stage_logs,
                   stage_timers, stage_saves, session_status, session_error,
                   failed_stage, project_record, storage, delete_calls,
                   uploaded>>

\* execute, lines 735-763: the project's generation status, inside its own
\* try/except (a failure is logged as a warning), the last line, the sleep
ExUpdateProject ==
    /\ UNCHANGED <<hubVars, depVars, backendVars, credVars, alVars, tfVars, gcpVars>>
    /\ pc = "ex_update_project"
    /\ \E ok \in BOOLEAN :
        project_record' = IF ok THEN "completed" ELSE project_record
    /\ pc' = "done"
    /\ UNCHANGED <<hasSession, status, error, analysis_result, dockerfile_task,
                   terraform_task, gather_exc, generated_terraform, stage_logs,
                   stage_timers, stage_saves, session_status, session_error,
                   failed_stage, exc, gen_record, gen_updates, storage,
                   delete_calls, uploaded>>

\* (mutant of FailedStageOf: a stage counts as incomplete only when empty)
FailedStageOf_empty(logs) ==
    IF Len(logs["analyze"]) = 0 THEN "analyze"
    ELSE IF Len(logs["ai_analysis"]) = 0 THEN "ai_analysis"
    ELSE IF Len(logs["generate"]) = 0 THEN "generate"
    ELSE IF Len(logs["upload"]) = 0 THEN "upload"
    ELSE None

\* execute, lines 768-777: the stage the failure is attributed to
FailedStageOf(logs) ==
    IF Len(logs["analyze"]) = 0 \/ Len(logs["analyze"]) < 2 THEN "analyze"
    ELSE IF Len(logs["ai_analysis"]) = 0 \/ Len(logs["ai_analysis"]) < 2
         THEN "ai_analysis"
    ELSE IF Len(logs["generate"]) = 0 \/ Len(logs["generate"]) < 2
         THEN "generate"
    ELSE IF Len(logs["upload"]) = 0 \/ Len(logs["upload"]) < 2
         THEN "upload"
    ELSE None

\* execute, lines 785-793: whether the closing loop saves stage_name with
\* status error: it has lines, it has a timer, and it is not among the
\* stages that have lines
LoopSaves(logs, timers, stage_name) ==
    /\ Len(logs[stage_name]) # 0
    /\ stage_name \in timers
    /\ stage_name \notin {s \in StageSet : Len(logs[s]) # 0}

\* the closing loop over the four stages, in order from stage number i
RECURSIVE LoopOver(_, _, _, _)
LoopOver(saves, logs, timers, i) ==
    IF i > Len(Stages) THEN saves
    ELSE LoopOver(IF LoopSaves(logs, timers, Stages[i])
                  THEN SaveStage(saves, logs, Stages[i], "error", TRUE)
                  ELSE saves,
                  logs, timers, i + 1)

\* execute, lines 765-814: except Exception: the failure line and the error
\* save of the attributed stage, the closing loop, session FAILED with
\* str(e), and the failure written to the generation record and the project
\* inside try/except: pass
ExHandler ==
    /\ UNCHANGED <<hubVars, depVars, backendVars, credVars, alVars, tfVars, gcpVars>>
    /\ pc = "ex_handler"
    /\ LET fs == FailedStageOf(stage_logs)
           logs == Log(stage_logs, fs, "ERROR")
       IN /\ failed_stage' = fs
          /\ stage_logs' = logs
          /\ \E ok \in BOOLEAN :
               stage_saves' =
                 LoopOver(IF fs # None
                          THEN SaveStage(stage_saves, logs, fs, "error", ok)
                          ELSE stage_saves,
                          logs, stage_timers, 1)
    /\ session_status' = IF hasSession THEN "FAILED" ELSE session_status
    /\ session_error' = IF hasSession THEN exc ELSE session_error
    /\ \E okGen, okProj \in BOOLEAN :
        /\ gen_updates' = Append(gen_updates,
              [status |-> "failed", error |-> exc, stored |-> okGen])
        /\ gen_record' = IF okGen THEN [status |-> "failed", error |-> exc]
                         ELSE gen_record
        /\ project_record' = IF okGen /\ okProj THEN "failed"
                             ELSE project_record
    /\ pc' = "done"
    /\ UNCHANGED <<hasSession, status, error, analysis_result, dockerfile_task,
                   terraform_task, gather_exc, generated_terraform,
                   stage_timers, exc, storage, delete_calls, uploaded>>

NextWf ==
    \/ ExStart
    \/ RwCreate
    \/ RwFetch
    \/ RwAnalyze
    \/ RwGenerate
    \/ DockerfileTaskEnds
    \/ TerraformTaskEnds
    \/ RwGatherReturn
    \/ RwGatherRaise
    \/ RwSuccess
    \/ RwFinalLog
    \/ RwExcept
    \/ ExWorkflowFailed
    \/ ExStagesDone
    \/ ExUploadBegin
    \/ ExDeleteOld
    \/ ExUploadFile
    \/ ExUploadDone
    \/ ExUpdateDb
    \/ ExUpdateProject
    \/ ExHandler



(***************************************************************************)
(* Claims about execute and run_workflow, checked under SpecWf.            *)
(***************************************************************************)

\* C1: the two generation tasks are started together and joined as a
\* barrier: once the upload stage has begun both tasks have returned a
\* result, and when either task has failed the upload stage has not begun,
\* delete_repository_files was never called and no file was uploaded.
C1_GenerationBarrier ==
    /\ (dockerfile_task = "idle") <=> (terraform_task = "idle")
    /\ "upload" \in stage_timers =>
          dockerfile_task = "done" /\ terraform_task = "done"
    /\ (dockerfile_task = "failed" \/ terraform_task = "failed") =>
          /\ "upload" \notin stage_timers
          /\ delete_calls = 0
          /\ uploaded = <<>>
          /\ \A o \in storage : o[2] = "old"

\* a run that ended after the Terraform task failed while the Dockerfile
\* task had returned its result, the stored objects untouched
C1_Witness ==
    /\ pc = "done"
    /\ dockerfile_task = "done"
    /\ terraform_task = "failed"
    /\ storage = OldObjects

\* C2: WorkflowState.status moves only forward along PENDING -> ANALYZING ->
\* GENERATING -> SUCCESS, or from a non-terminal status to FAILED with error
\* set to the stringified cause; SUCCESS and FAILED are never left.
C2_StatusStep ==
    status' # status =>
        \/ <<status, status'>> \in
              { <<"NoState", "PENDING">>, <<"PENDING", "ANALYZING">>,
                <<"ANALYZING", "GENERATING">>, <<"GENERATING", "SUCCESS">> }
        \/ /\ status \in {"PENDING", "ANALYZING", "GENERATING"}
           /\ status' = "FAILED"
           /\ exc # None
           /\ error' = exc

C2_StatusForward ==
    /\ [][C2_StatusStep]_vars
    /\ []((status = "FAILED") <=> (error # None))

\* run_workflow ended FAILED carrying the Terraform generator's error
C2_Witness ==
    /\ status = "FAILED"
    /\ error = "terraform_error"
    /\ pc = "ex_after_workflow"

\* C4: every stage that has started (it has a timer) is flushed by
\* save_stage exactly once per run, on success and on failure alike: never
\* twice, and not zero times once the run is over.
C4_FlushedExactlyOnce ==
    /\ \A s \in StageSet : Len(stage_saves[s]) <= 1
    /\ pc = "done" => \A s \in stage_timers : Len(stage_saves[s]) = 1

\* C7: every failure of execute ends with the session FAILED carrying the
\* stringified error, the failure with that error written to the durable
\* generation record (the last update_generation_status call), and the lines
\* of every started stage flushed; no failed run stays non-terminal or is
\* reported as completed.
C7_FailureRecorded ==
    (pc = "done" /\ exc # None) =>
        /\ hasSession => session_status = "FAILED" /\ session_error = exc
        /\ gen_updates # <<>>
        /\ gen_updates[Len(gen_updates)].status = "failed"
        /\ gen_updates[Len(gen_updates)].error = exc
        /\ gen_record.status # "completed"
        /\ \A s \in stage_timers : Len(stage_saves[s]) >= 1

\* the entries a stage held when the handler was entered
EntriesAtFailure(s) ==
    Len(stage_logs[s]) - (IF s = failed_stage THEN 1 ELSE 0)

\* the stages, by position, that held fewer than two entries at the failure
ShortStages == {i \in 1..Len(Stages) : EntriesAtFailure(Stages[i]) < 2}

\* C8: a failure of execute is attributed to the first stage, in the order
\* analyze, ai_analysis, generate, upload, that holds fewer than two entries:
\* that stage gets the error line and the error flush; a failure of a
\* generation task is attributed to generate, which then holds no entry
\* while analyze and ai_analysis hold at least two.
C8_Attribution ==
    (pc = "done" /\ exc # None) =>
        /\ failed_stage = None => ShortStages = {}
        /\ failed_stage # None =>
              /\ ShortStages # {}
              /\ \A i \in ShortStages :
                    \E j \in 1..i : Stages[j] = failed_stage /\ j \in ShortStages
              /\ \A i \in ShortStages : Stages[i] = failed_stage =>
                    \A j \in ShortStages : i <= j
              /\ stage_logs[failed_stage][Len(stage_logs[failed_stage])] = "ERROR"
              /\ Len(stage_saves[failed_stage]) >= 1
              /\ stage_saves[failed_stage][Len(stage_saves[failed_stage])].status
                    = "error"
              /\ stage_saves[failed_stage][Len(stage_saves[failed_stage])].lines
                    = Len(stage_logs[failed_stage])
        /\ exc \in {"dockerfile_error", "terraform_error"} =>
              /\ failed_stage = "generate"
              /\ EntriesAtFailure("generate") = 0
              /\ Len(stage_logs["analyze"]) >= 2
              /\ Len(stage_logs["ai_analysis"]) >= 2

\* a run that failed in a generation task and was attributed to generate
C8_Witness ==
    /\ pc = "done"
    /\ exc = "dockerfile_error"
    /\ failed_stage = "generate"
    /\ stage_saves["generate"] # <<>>

\* the objects this run's upload loop stores under {owner}/{repo}/
ThisRunObjects ==
    {<<FilesToUpload[i], "new">> : i \in 1..Len(FilesToUpload)}

C17_StrictOrdering ==
    /\ (dockerfile_task # "idle" \/ terraform_task # "idle") => analysis_result
    /\ status = "GENERATING" => analysis_result
    /\ (exc = "analysis_error" \/ error = "analysis_error") =>
          /\ dockerfile_task = "idle"
          /\ terraform_task = "idle"
          /\ ~analysis_result
          /\ pc # "rw_except" => status = "FAILED" /\ error = "analysis_error"

\* the analysis raised and the workflow has returned its FAILED state
C17_Witness ==
    /\ pc = "ex_after_workflow"
    /\ status = "FAILED"
    /\ error = "analysis_error"
    /\ dockerfile_task = "idle"
    /\ terraform_task = "idle"

C28_TerminalStep ==
    session_status = "COMPLETED" =>
        /\ session_status' = "COMPLETED"
        /\ gen_record'.status # "failed"
        /\ project_record' # "failed"

\* C28: in execute the session status does not change once it is terminal:
\* after COMPLETED it is never set to FAILED in the same run, and a run
\* whose artifacts were all uploaded and whose session was marked COMPLETED
\* is not recorded as failed afterwards.
C28_CompletedIsFinal == [][C28_TerminalStep]_vars

\* the stages that hold an error flush or an ERROR line
FlushedWithError ==
    {s \in StageSet :
        \E i \in 1..Len(stage_saves[s]) : stage_saves[s][i].status = "error"}
MarkedWithFailure ==
    {s \in StageSet :
        \E i \in 1..Len(stage_logs[s]) : stage_logs[s][i] = "ERROR"}

\* C34: a stage is flushed with status error only if it had started in the
\* run (its timer was set); a run that fails during analysis leaves generate
\* and upload without an error flush and without the failure line.
C34_ErrorOnlyIfStarted ==
    /\ FlushedWithError \subseteq stage_timers
    /\ (pc = "done" /\ status = "FAILED") =>
          /\ FlushedWithError \cap {"generate", "upload"} = {}
          /\ MarkedWithFailure \cap {"generate", "upload"} = {}

(***************************************************************************)
(* The log stream hub (src/src/api/deployment_logs.py)                     *)
(***************************************************************************)

\* the keys of _active_deployments the model uses
DeploymentIds == {"p1"}

\* a key of _active_deployments that is absent
NoQueue == 0

\* queue objects are named after the operation whose register_deployment
\* call created them
QueueIds == 1..MaxOps

\* the message send_completion enqueues
StreamComplete == <<"__STREAM_COMPLETE__">>

\* the texts an operation may pass to send_log as its k-th line: a text of
\* its own or, for its first line, a text equal to the one send_completion
\* enqueues (the lines are the output of the commands run in the sandbox)
LineTexts(run, k) ==
    IF k = 1 THEN {<<run, k>>, StreamComplete} ELSE {<<run, k>>}

\* the wait loop of log_stream_generator: range(50)
RegistrationPolls == 50

\* the idle ceiling of log_stream_generator: timeout_count > 600
IdleCeiling == 600

\* (mutant of RegisterDeployment: a new queue replaces the one present)
RegisterDeployment_replace(reg, d, q) == [reg EXCEPT ![d] = q]

\* register_deployment: a new queue unless the id is present
RegisterDeployment(reg, d, q) ==
    IF reg[d] = NoQueue THEN [reg EXCEPT ![d] = q] ELSE reg

\* (mutant of UnregisterDeployment: the entry is left in the registry)
UnregisterDeployment_keep(reg, d) == reg

\* unregister_deployment: del _active_deployments[deployment_id] if present
UnregisterDeployment(reg, d) == [reg EXCEPT ![d] = NoQueue]

\* (mutant of SendLog: a message for an absent id is put on a queue)
SendLog_orphan(reg, qs, d, message) ==
    [qs EXCEPT ![IF reg[d] # NoQueue THEN reg[d] ELSE 1] = Append(@, message)]

\* send_log / send_completion: put on the registered queue, drop otherwise
SendLog(reg, qs, d, message) ==
    IF reg[d] # NoQueue
    THEN [qs EXCEPT ![reg[d]] = Append(@, message)]
    ELSE qs

SendCompletion(reg, qs, d) == SendLog(reg, qs, d, StreamComplete)

\* the data frame log_stream_generator yields for a dequeued message
FrameOf(message) ==
    IF message = StreamComplete
    THEN <<"complete">>
    ELSE <<"log", message>>

InitHub ==
    /\ active_deployments = [d \in DeploymentIds |-> NoQueue]
    /\ queues = [q \in QueueIds |-> <<>>]
    /\ opRun = 0
    /\ opPc = "idle"
    /\ opDep = "p1"
    /\ sent = [r \in QueueIds |-> <<>>]
    /\ subPc = "none"
    /\ subDep = "p1"
    /\ subQueue = NoQueue
    /\ wait_count = 0
    /\ timeout_count = 0
    /\ frames = <<>>
    /\ last_yield = <<"none">>
    /\ exit_cause = None
    /\ connections = 0
    /\ unregister_calls = 0

subVars == <<subPc, subDep, subQueue, wait_count, timeout_count, frames,
             last_yield, exit_cause, connections, unregister_calls>>

opVars == <<opRun, opPc, opDep, sent>>

\* ---- a deployment operation publishing through the hub ----

\* register_deployment(deployment_id), lines 21-25
OpRegister ==
    /\ opPc = "idle"
    /\ opRun < MaxOps
    /\ \E d \in DeploymentIds :
        /\ opDep' = d
        /\ active_deployments' = RegisterDeployment(active_deployments, d, opRun + 1)
    /\ opRun' = opRun + 1
    /\ opPc' = "publishing"
    /\ UNCHANGED <<queues, sent>>
    /\ UNCHANGED subVars
    /\ UNCHANGED <<wfVars, depVars, backendVars, credVars, alVars, tfVars, gcpVars>>

\* send_log(deployment_id, log_message), lines 35-38
OpSendLog ==
    /\ opPc = "publishing"
    /\ Len(sent[opRun]) < MaxLines
    /\ \E text \in LineTexts(opRun, Len(sent[opRun]) + 1) :
        /\ queues' = SendLog(active_deployments, queues, opDep, text)
        /\ sent' = [sent EXCEPT ![opRun] = Append(@, text)]
    /\ UNCHANGED <<active_deployments, opRun, opPc, opDep>>
    /\ UNCHANGED subVars
    /\ UNCHANGED <<wfVars, depVars, backendVars, credVars, alVars, tfVars, gcpVars>>

\* send_completion(deployment_id), lines 41-44
OpSendCompletion ==
    /\ opPc = "publishing"
    /\ queues' = SendCompletion(active_deployments, queues, opDep)
    /\ opPc' = "idle"
    /\ UNCHANGED <<active_deployments, opRun, opDep, sent>>
    /\ UNCHANGED subVars
    /\ UNCHANGED <<wfVars, depVars, backendVars, credVars, alVars, tfVars, gcpVars>>

\* ---- log_stream_generator(deployment_id), lines 62-118 ----

\* the points at which the generator is suspended (an await or a yield)
\* (a generator that has not run yet is not inside its try statement)
Suspended ==
    \/ subPc = "wait" /\ wait_count > 0
    \/ subPc \in {"poll", "yield_log", "yield_keepalive", "yield_complete",
                  "yield_timeout", "yield_error", "yield_notfound"}

\* the finally clause, lines 117-118; the generator's locals end with it
Finally(cause) ==
    /\ active_deployments' = UnregisterDeployment(active_deployments, subDep)
    /\ subPc' = "closed"
    /\ exit_cause' = cause
    /\ unregister_calls' = unregister_calls + 1
    /\ wait_count' = 0
    /\ timeout_count' = 0

\* the client opens the stream: the generator starts
SubConnect ==
    /\ subPc \in {"none", "closed"}
    /\ connections < MaxConnections
    /\ connections' = connections + 1
    /\ unregister_calls' = 0
    /\ \E d \in DeploymentIds : subDep' = d
    /\ subPc' = "wait"
    /\ subQueue' = NoQueue
    /\ wait_count' = 0
    /\ timeout_count' = 0
    /\ frames' = <<>>
    /\ last_yield' = <<"none">>
    /\ exit_cause' = None
    /\ UNCHANGED <<active_deployments, queues>>
    /\ UNCHANGED opVars
    /\ UNCHANGED <<wfVars, depVars, backendVars, credVars, alVars, tfVars, gcpVars>>

\* one iteration of the wait loop, lines 66-72, and on success lines 74-77
SubWait ==
    /\ subPc = "wait"
    /\ IF active_deployments[subDep] # NoQueue
       THEN /\ subQueue' = active_deployments[subDep]
            /\ timeout_count' = 0
            /\ frames' = Append(frames, <<"connected">>)
            /\ last_yield' = <<"connected">>
            /\ subPc' = "poll"
            /\ wait_count' = 0
       ELSE /\ IF wait_count + 1 < RegistrationPolls
               THEN /\ subPc' = "wait"
                    /\ wait_count' = wait_count + 1
                    /\ UNCHANGED <<frames, last_yield>>
               ELSE /\ subPc' = "yield_notfound"
                    /\ wait_count' = 0
                    /\ frames' = Append(frames, <<"error", "Deployment not found">>)
                    /\ last_yield' = <<"error", "Deployment not found">>
            /\ UNCHANGED <<subQueue, timeout_count>>
    /\ UNCHANGED <<active_deployments, queues, subDep, exit_cause, connections, unregister_calls>>
    /\ UNCHANGED opVars
    /\ UNCHANGED <<wfVars, depVars, backendVars, credVars, alVars, tfVars, gcpVars>>

\* return after the 'Deployment not found' frame, line 72, then finally
SubNotFoundReturn ==
    /\ subPc = "yield_notfound"
    /\ Finally("notfound")
    /\ UNCHANGED <<queues, subDep, subQueue, frames,
                   last_yield, connections>>
    /\ UNCHANGED opVars
    /\ UNCHANGED <<wfVars, depVars, backendVars, credVars, alVars, tfVars, gcpVars>>

\* queue.get() returns a message, lines 82-96
SubGet ==
    /\ subPc = "poll"
    /\ queues[subQueue] # <<>>
    /\ LET message == Head(queues[subQueue]) IN
        /\ queues' = [queues EXCEPT ![subQueue] = Tail(@)]
        /\ frames' = Append(frames, FrameOf(message))
        /\ last_yield' = FrameOf(message)
        /\ subPc' = IF message = StreamComplete
                    THEN "yield_complete" ELSE "yield_log"
    /\ UNCHANGED <<active_deployments, subDep, subQueue, wait_count,
                   timeout_count, exit_cause, connections, unregister_calls>>
    /\ UNCHANGED opVars
    /\ UNCHANGED <<wfVars, depVars, backendVars, credVars, alVars, tfVars, gcpVars>>

\* (mutant of SubLogResume: a delivered line does not reset the count)
SubLogResume_noreset ==
    /\ subPc = "yield_log"
    /\ subPc' = "poll"
    /\ UNCHANGED <<active_deployments, queues, subDep, subQueue, wait_count,
                   timeout_count, frames, last_yield, exit_cause, connections, unregister_calls>>
    /\ UNCHANGED opVars
    /\ UNCHANGED <<wfVars, depVars, backendVars, credVars, alVars, tfVars, gcpVars>>

\* resumed after a log frame: timeout_count = 0, line 96
SubLogResume ==
    /\ subPc = "yield_log"
    /\ timeout_count' = 0
    /\ subPc' = "poll"
    /\ UNCHANGED <<active_deployments, queues, subDep, subQueue, wait_count,
                   frames, last_yield, exit_cause, connections, unregister_calls>>
    /\ UNCHANGED opVars
    /\ UNCHANGED <<wfVars, depVars, backendVars, credVars, alVars, tfVars, gcpVars>>

\* wait_for times out on an empty queue: the keepalive, lines 98-100
SubPollTimeout ==
    /\ subPc = "poll"
    /\ queues[subQueue] = <<>>
    /\ last_yield' = <<"keepalive">>
    /\ subPc' = "yield_keepalive"
    /\ UNCHANGED <<active_deployments, queues, subDep, subQueue, wait_count,
                   timeout_count, frames, exit_cause, connections, unregister_calls>>
    /\ UNCHANGED opVars
    /\ UNCHANGED <<wfVars, depVars, backendVars, credVars, alVars, tfVars, gcpVars>>

\* resumed after the keepalive: the idle ceiling, lines 101-107
SubKeepaliveResume ==
    /\ subPc = "yield_keepalive"
    /\ timeout_count' = timeout_count + 1
    /\ IF timeout_count + 1 > IdleCeiling
       THEN /\ frames' = Append(frames, <<"timeout">>)
            /\ last_yield' = <<"timeout">>
            /\ subPc' = "yield_timeout"
       ELSE /\ subPc' = "poll"
            /\ UNCHANGED <<frames, last_yield>>
    /\ UNCHANGED <<active_deployments, queues, subDep, subQueue, wait_count,
                   exit_cause, connections, unregister_calls>>
    /\ UNCHANGED opVars
    /\ UNCHANGED <<wfVars, depVars, backendVars, credVars, alVars, tfVars, gcpVars>>

\* an exception inside the loop: the error frame, lines 108-111
SubError ==
    /\ subPc = "poll"
    /\ frames' = Append(frames, <<"error", "stream">>)
    /\ last_yield' = <<"error", "stream">>
    /\ subPc' = "yield_error"
    /\ UNCHANGED <<active_deployments, queues, subDep, subQueue, wait_count,
                   timeout_count, exit_cause, connections, unregister_calls>>
    /\ UNCHANGED opVars
    /\ UNCHANGED <<wfVars, depVars, backendVars, credVars, alVars, tfVars, gcpVars>>

\* break after the complete, timeout or error frame, then finally
SubBreak ==
    /\ subPc \in {"yield_complete", "yield_timeout", "yield_error"}
    /\ Finally(CASE subPc = "yield_complete" -> "complete"
                 [] subPc = "yield_timeout" -> "timeout"
                 [] OTHER -> "error")
    /\ UNCHANGED <<queues, subDep, subQueue, frames,
                   last_yield, connections>>
    /\ UNCHANGED opVars
    /\ UNCHANGED <<wfVars, depVars, backendVars, credVars, alVars, tfVars, gcpVars>>

\* (mutant of CaughtByExceptException: CancelledError derives from Exception)
CaughtByExceptException_all(signal) == TRUE

\* 'except Exception' catches neither asyncio.CancelledError nor
\* GeneratorExit: both derive from BaseException
CaughtByExceptException(signal) ==
    signal \notin {"CancelledError", "GeneratorExit"}

\* what is thrown into a generator whose consumer goes away: CancelledError
\* at an await of the consumer's task, GeneratorExit (aclose) at a yield
CancelSignal(at_await) == IF at_await THEN "CancelledError" ELSE "GeneratorExit"

\* the client disconnects or the task is cancelled while the generator is
\* suspended: GeneratorExit or CancelledError passes both except clauses
\* (lines 108, 113) and the finally clause runs
SubCancel ==
    /\ Suspended
    /\ IF /\ CaughtByExceptException(CancelSignal(subPc \in {"wait", "poll"}))
          /\ subPc # "yield_error"
       THEN /\ frames' = Append(frames, <<"error", "stream">>)
            /\ last_yield' = <<"error", "stream">>
            /\ subPc' = "yield_error"
            /\ exit_cause' = "cancel"
            /\ UNCHANGED <<active_deployments, wait_count, timeout_count,
                           unregister_calls>>
       ELSE /\ Finally("cancel")
            /\ UNCHANGED <<frames, last_yield>>
    /\ UNCHANGED <<queues, subDep, subQueue, connections>>
    /\ UNCHANGED opVars
    /\ UNCHANGED <<wfVars, depVars, backendVars, credVars, alVars, tfVars, gcpVars>>

NextHub ==
    \/ OpRegister
    \/ OpSendLog
    \/ OpSendCompletion
    \/ SubConnect
    \/ SubWait
    \/ SubNotFoundReturn
    \/ SubGet
    \/ SubLogResume
    \/ SubPollTimeout
    \/ SubKeepaliveResume
    \/ SubError
    \/ SubBreak
    \/ SubCancel

(***************************************************************************)
(* Claims about the log stream hub, checked under SpecHub.                 *)
(***************************************************************************)

\* the messages of the log frames the generator has yielded, in order
ReceivedLines ==
    LET logs == SelectSeq(frames, LAMBDA f : f[1] = "log")
    IN  [i \in 1..Len(logs) |-> logs[i][2]]

IsPrefix(s, t) == Len(s) <= Len(t) /\ SubSeq(t, 1, Len(s)) = s

\* C3: FIFO delivery.  The generator holds the queue that an operation's
\* register_deployment created; the lines it has received are, in order and
\* without a repetition, the first of the lines that operation passed to
\* send_log, and once it has received the completion frame it has received
\* every one of them: connected, line_1 .. line_N, complete.
C3_FifoDelivery ==
    subQueue # NoQueue =>
        /\ IsPrefix(ReceivedLines, sent[subQueue])
        /\ <<"complete">> \in {frames[i] : i \in 1..Len(frames)} =>
              /\ ReceivedLines = sent[subQueue]
              /\ frames = <<<<"connected">>>>
                            \o [i \in 1..Len(ReceivedLines) |->
                                   <<"log", ReceivedLines[i]>>]
                            \o <<<<"complete">>>>

\* C6: whenever log_stream_generator terminates, whatever the cause, its
\* deployment id is not in the registry in the state it leaves behind.
C6_Terminates == subPc # "closed" /\ subPc' = "closed"

C6_UnregisteredOnExit ==
    [][C6_Terminates => active_deployments'[subDep] = NoQueue]_vars

\* the client disconnected from a stream whose operation is still publishing
C6_Witness ==
    /\ subPc = "closed"
    /\ exit_cause = "cancel"
    /\ subQueue # NoQueue
    /\ opPc = "publishing"
    /\ active_deployments[subDep] = NoQueue

\* the frames that end a stream that found its queue
TerminalFrames == {<<"complete">>, <<"timeout">>}

\* no frame follows a terminal frame, a stream that ended by the sentinel or
\* by the idle ceiling ended with that frame, and the timeout frame is
\* yielded at the first count above the ceiling
C15_Frames ==
    /\ \A i \in 1..(Len(frames) - 1) : frames[i] \notin TerminalFrames
    /\ last_yield \in TerminalFrames =>
          /\ subPc \in {"yield_complete", "yield_timeout", "closed"}
          /\ frames[Len(frames)] = last_yield
    /\ exit_cause = "complete" => last_yield = <<"complete">>
    /\ exit_cause = "timeout" => last_yield = <<"timeout">>
    /\ timeout_count <= IdleCeiling + 1
    /\ subPc = "yield_timeout" => timeout_count = IdleCeiling + 1

\* the count is the number of consecutive empty polls, each answered by a
\* keepalive; a delivered line resets it; the complete frame answers the
\* sentinel
C15_Step ==
    /\ timeout_count' = timeout_count + 1 => last_yield = <<"keepalive">>
    /\ (subPc = "poll" /\ queues[subQueue] = <<>> /\ subPc' # "poll")
          => \/ last_yield' = <<"keepalive">> /\ subPc' = "yield_keepalive"
             \/ subPc' \in {"yield_error", "closed"}
    /\ (subPc = "yield_log" /\ subPc' = "poll") => timeout_count' = 0
    /\ (subPc = "yield_keepalive" /\ subPc' = "poll")
          => timeout_count' <= IdleCeiling
    /\ (subPc = "poll" /\ subPc' = "yield_complete")
          => Head(queues[subQueue]) = StreamComplete
    /\ (subPc = "poll" /\ subPc' = "yield_log")
          => Head(queues[subQueue]) # StreamComplete

\* C15: a generator that found its queue always terminates: it yields the
\* complete frame when it dequeues the sentinel and otherwise the timeout
\* frame at the idle ceiling (more than 600 consecutive empty polls, the
\* count reset by each delivered line); every empty poll yields a keepalive
\* and nothing is yielded after the terminal frame.
C15_TerminatesByCeiling ==
    /\ []C15_Frames
    /\ [][C15_Step]_vars
    /\ (subPc = "poll") ~> (subPc = "closed")

\* a stream that delivered a line and then stayed idle up to the ceiling
C15_Witness ==
    /\ subPc = "closed"
    /\ exit_cause = "timeout"
    /\ Len(frames) >= 3
    /\ frames[2][1] = "log"
    /\ frames[Len(frames)] = <<"timeout">>
    /\ opPc = "publishing"

\* a register_deployment call for an id that is registered
C14_ReRegisterStep ==
    /\ opRun' = opRun + 1
    /\ active_deployments[opDep'] # NoQueue

\* C14: the registry holds at most one queue per operation id: a
\* register_deployment call for an id that is already registered changes
\* nothing, the id keeps its queue object and the messages enqueued on it.
C14_RegisterIdempotent ==
    [][C14_ReRegisterStep =>
          active_deployments' = active_deployments /\ queues' = queues]_vars

\* the second operation registered the id while the first one's queue, with
\* its messages, was still registered: the id still maps to that queue
C14_Witness ==
    /\ opRun = 2
    /\ opPc = "publishing"
    /\ active_deployments[opDep] = 1
    /\ Len(queues[1]) > Len(sent[2])
    /\ queues[2] = <<>>

\* a send_log or send_completion call for an id that is not registered
C13_OrphanStep ==
    /\ opPc = "publishing"
    /\ active_deployments[opDep] = NoQueue
    /\ sent' # sent \/ opPc' = "idle"

\* C13: publishing a line or the completion signal for an operation id that
\* is not registered returns without creating a queue: the registry is
\* unchanged and the message is on no queue (it is dropped).
C13_OrphanPublishDropped ==
    [][C13_OrphanStep =>
          active_deployments' = active_deployments /\ queues' = queues]_vars

\* the client left before any line was published; the operation has since
\* passed all its lines to send_log and none is queued or delivered
C13_Witness ==
    /\ opPc = "publishing"
    /\ active_deployments[opDep] = NoQueue
    /\ Len(sent[opRun]) = MaxLines
    /\ queues[opRun] = <<>>
    /\ subQueue = opRun
    /\ exit_cause = "cancel"
    /\ frames = <<<<"connected">>>>

C30_OwnStreamStep ==
    /\ (opPc = "idle" /\ opPc' = "publishing") =>
          queues'[active_deployments'[opDep']] = <<>>
    /\ (opPc = "publishing" /\ opPc' = "publishing") =>
          /\ (subPc' = "yield_complete" => subPc = "yield_complete")
          /\ active_deployments[opDep] # NoQueue =>
                active_deployments'[opDep] # NoQueue \/ exit_cause' = "cancel"

\* C30: a subscriber's stream for an operation carries only that operation's
\* messages and ends only on that operation's completion: the queue an
\* operation registers holds nothing of an earlier operation, and while the
\* operation is publishing no sentinel ends the stream or unregisters the
\* queue.
C30_OwnStreamOnly == [][C30_OwnStreamStep]_vars

C31_GiveUpStep ==
    (subPc = "yield_notfound" /\ subPc' = "closed") =>
        active_deployments' = active_deployments

\* C31: a log_stream_generator that gives up waiting for the registration
\* (the 'Deployment not found' frame after 50 polls) leaves the registry as
\* it is: it removes no queue an operation registered for the id after the
\* wait expired.
C31_GiveUpKeepsRegistry == [][C31_GiveUpStep]_vars

C33_ReconnectStep ==
    (/\ subPc = "closed" /\ exit_cause = "cancel"
     /\ subPc' = "wait" /\ subDep = opDep /\ subDep' = opDep
     /\ opPc = "publishing") =>
        active_deployments[opDep] = opRun

\* C33: a subscriber that reconnects for the id of an operation that was
\* running when the previous subscriber disconnected, and is still running,
\* finds the operation's queue registered under the id, so that the
\* remaining log lines and the completion signal reach it.
C33_ReconnectResumes == [][C33_ReconnectStep]_vars

(***************************************************************************)
(* The deployment handlers (src/src/api/aws_deployments.py) and the        *)
(* services they drive (src/src/services/deployment/aws_deployment.py,     *)
(* aws_docker_build.py)                                                    *)
(***************************************************************************)

OpTypes == {"build", "plan", "apply", "destroy"}

\* the project the requests are about; it is the key of its log queue
ProjectId == "p1"

\* what plan, apply and destroy do first inside the scope
Prepare ==
    <<"configure_aws_credentials", "mkdir_tf_dir", "write_tf_files",
      "setup_terraform_state", "write_tfvars">>

\* the body of 'async with sandbox:', in the order of the code
ScopeSteps(h) ==
    CASE h = "build" ->
            <<"ensure_ecr_repository", "git_clone", "write_dockerfile",
              "build_docker_image", "get_ecr_login_password", "docker_login",
              "docker_tag", "docker_push">>
      [] h = "plan" -> Prepare \o <<"terraform_init", "terraform_plan">>
      [] h = "apply" ->
            Prepare \o <<"terraform_init", "terraform_apply", "terraform_output">>
      [] OTHER ->
            Prepare \o <<"terraform_init", "terraform_destroy", "cleanup_state">>

\* (mutant of AfterScopeSteps: apply reads the outputs after the scope)
AfterScopeSteps_late(h) ==
    CASE h = "apply" ->
            <<"save_deployment_logs", "update_project_deployment_status",
              "terraform_output", "store_outputs", "send_completion">>
      [] h = "destroy" ->
            <<"save_deployment_logs", "update_project_deployment_status",
              "clear_outputs", "send_completion">>
      [] OTHER ->
            <<"save_deployment_logs", "update_project_deployment_status",
              "send_completion">>

\* what the handler does after the scope, in the order of the code
AfterScopeSteps(h) ==
    CASE h = "apply" ->
            <<"save_deployment_logs", "update_project_deployment_status",
              "store_outputs", "send_completion">>
      [] h = "destroy" ->
            <<"save_deployment_logs", "update_project_deployment_status",
              "clear_outputs", "send_completion">>
      [] OTHER ->
            <<"save_deployment_logs", "update_project_deployment_status",
              "send_completion">>

\* the steps that run a command or write a file in the sandbox; the others
\* call the cloud provider or the database from the server
SandboxSteps ==
    {"git_clone", "write_dockerfile", "build_docker_image", "docker_login",
     "docker_tag", "docker_push", "configure_aws_credentials", "mkdir_tf_dir",
     "write_tf_files", "setup_terraform_state", "write_tfvars",
     "terraform_init", "terraform_plan", "terraform_apply",
     "terraform_output", "terraform_destroy"}

\* (mutant of NonRaisingSteps: _get_terraform_outputs lets its exceptions out)
NonRaisingSteps_cleanup == {"cleanup_state"}

\* steps whose failures are caught where they happen:
\* _get_terraform_outputs returns {} and cleanup_state only logs
NonRaisingSteps == {"terraform_output", "cleanup_state"}

\* the status update_project_deployment_status writes on success
StatusAfter(h) ==
    CASE h = "build" -> "image_built"
      [] h = "plan" -> "plan_generated"
      [] h = "apply" -> "deployed"
      [] OTHER -> "destroyed"

\* a command or a file write reaches the sandbox
IssueCommand(step) ==
    IF step \in SandboxSteps
    THEN /\ commands' = Append(commands, step)
         /\ late_commands' = IF sandbox_state = "ready"
                             THEN late_commands ELSE late_commands + 1
    ELSE UNCHANGED <<commands, late_commands>>

\* collecting_callback(message): collect the line, create the send_log task
CollectingCallback(tasks, message) ==
    /\ collected_logs' = Append(collected_logs, message)
    /\ send_tasks' = Append(tasks, message)

\* (mutant of RunSendTasks: the tasks are not run while the handler is
\* suspended)
RunSendTasks_never(reg, qs, d, tasks) == qs

\* the handler is suspended on the sandbox: the event loop runs the send_log
\* tasks created so far, oldest first
RECURSIVE RunSendTasks(_, _, _, _)
RunSendTasks(reg, qs, d, tasks) ==
    IF tasks = <<>>
    THEN qs
    ELSE RunSendTasks(reg, SendLog(reg, qs, d, Head(tasks)), d, Tail(tasks))

\* SandboxManager.__aenter__: the environment is acquired, or the
\* acquisition fails and there is nothing to release
SandboxEnter(ok) ==
    sandbox_state' = IF ok THEN "ready" ELSE sandbox_state

\* SandboxManager.__aexit__: the environment is released
SandboxExit ==
    /\ sandbox_state' = "closed"
    /\ release_count' = release_count + 1

\* SQL NULL in a column of the projects table
Null == "NULL"

\* what _get_terraform_outputs can return: {} (the command failed, the JSON
\* did not parse, or no output is declared), or outputs without or with
\* alb_dns_name
OutputValues == {"empty", "without_alb", "with_alb"}

\* apply: UPDATE projects SET application_url = %s, terraform_outputs = %s
StoreOutputs(o) ==
    [application_url |-> IF o = "with_alb" THEN "http_alb" ELSE Null,
     terraform_outputs |-> o]

\* (mutant of ClearOutputs: only the URL is cleared)
ClearOutputs_url ==
    [application_url |-> Null, terraform_outputs |-> terraform_outputs]

\* destroy: UPDATE projects SET application_url = NULL,
\* terraform_outputs = NULL
ClearOutputs ==
    [application_url |-> Null, terraform_outputs |-> Null]

\* the record of a build that succeeded before the first request modelled
PriorBuild ==
    [operation_type |-> "build", status |-> "success",
     logs |-> <<<<0, "ensure_ecr_repository">>, <<0, "git_clone">>,
                <<0, "write_dockerfile">>, <<0, "docker_login">>,
                <<0, "docker_push">>>>]

\* cleanup_state has not been called in this request
NoCleanup == [calls |-> 0, deleted |-> {}, logged |-> {}, raised |-> FALSE]

\* how a call of cleanup_state to AWS can end: done, ClientError, or another
\* exception (no credentials, no connection)
CleanupAnswers == {"ok", "client_error", "error"}

\* (mutant of CleanupState: the outer clause raises again)
CleanupState_reraise(clients, object, item) ==
    IF clients # "ok"
    THEN [deleted |-> {}, logged |-> {"clients"}, raised |-> TRUE]
    ELSE IF object = "error"
    THEN [deleted |-> {}, logged |-> {"delete_object"}, raised |-> TRUE]
    ELSE LET first == IF object = "ok" THEN {"state_object"} ELSE {}
             warned == IF object = "ok" THEN {} ELSE {"delete_object"}
         IN  IF item = "error"
             THEN [deleted |-> first, logged |-> warned \cup {"delete_item"},
                   raised |-> TRUE]
             ELSE [deleted |-> first \cup (IF item = "ok" THEN {"lock_entry"}
                                           ELSE {}),
                   logged |-> warned \cup (IF item = "ok" THEN {}
                                           ELSE {"delete_item"}),
                   raised |-> FALSE]

\* S3StateManager.cleanup_state: the clients and the account id, then
\* delete_object and delete_item, each in its own 'except ClientError' that
\* logs a warning; any other exception reaches the outer 'except Exception',
\* which logs an error and does not raise.  The result names what was
\* deleted and which failures were logged.
CleanupState(clients, object, item) ==
    IF clients # "ok"
    THEN [deleted |-> {}, logged |-> {"clients"}, raised |-> FALSE]
    ELSE IF object = "error"
    THEN [deleted |-> {}, logged |-> {"delete_object"}, raised |-> FALSE]
    ELSE LET first == IF object = "ok" THEN {"state_object"} ELSE {}
             warned == IF object = "ok" THEN {} ELSE {"delete_object"}
         IN  IF item = "error"
             THEN [deleted |-> first, logged |-> warned \cup {"delete_item"},
                   raised |-> FALSE]
             ELSE [deleted |-> first \cup (IF item = "ok" THEN {"lock_entry"}
                                           ELSE {}),
                   logged |-> warned \cup (IF item = "ok" THEN {}
                                           ELSE {"delete_item"}),
                   raised |-> FALSE]

InitDep ==
    /\ requests = 0
    /\ handler = "none"
    /\ hPc = "idle"
    /\ hStep = 0
    /\ hExc = None
    /\ response = "none"
    /\ sandbox_state = "none"
    /\ release_count = 0
    /\ commands = <<>>
    /\ late_commands = 0
    /\ collected_logs = <<>>
    /\ send_tasks = <<>>
    /\ \E built \in BOOLEAN :
        /\ deployment_logs = IF built THEN <<PriorBuild>> ELSE <<>>
        /\ deployment_status = IF built THEN "image_built" ELSE "not_deployed"
    /\ terraform_outputs = Null
    /\ application_url = Null
    /\ outputs = None
    /\ nonzero_exits = {}
    /\ cleanup = NoCleanup

\* the variables of the hub that the handlers do not touch
hubRest == <<opRun, opPc, opDep, sent, subPc, subDep, subQueue, wait_count,
             timeout_count, frames, last_yield, exit_cause, connections,
             unregister_calls>>

\* the line of a build that carries the image URI with its tag:
\* "Image pushed successfully: {full_image_uri}"
CarriesImageUri(line) == line[2] = "docker_push"

\* the loop over build_logs.get("logs", []): the first line the pattern
\* matches gives image_uri
HasImageUri(logs) == \E i \in 1..Len(logs) : CarriesImageUri(logs[i])

\* the position of the latest record of an operation type, 0 when none
LatestOf(logs, op) ==
    LET idx == {i \in 1..Len(logs) : logs[i].operation_type = op}
    IN  IF idx = {} THEN 0 ELSE CHOOSE i \in idx : \A j \in idx : j <= i

\* supabase.get_deployment_logs(project_id, operation_type): the answers it
\* can give. The latest record of that type; when there is none, either
\* None (the case get_aws_deployment_logs guards against with
\* 'if operation_logs and ...') or a record without lines.
GetDeploymentLogs(logs, op) ==
    IF LatestOf(logs, op) = 0
    THEN {[is_none |-> TRUE, logs |-> <<>>], [is_none |-> FALSE, logs |-> <<>>]}
    ELSE {[is_none |-> FALSE, logs |-> logs[LatestOf(logs, op)].logs]}

\* what the handler does before register_deployment, in the order of the
\* code: the connection, the generated files, the build logs.
\*   conn  : get_aws_connection_for_project returns, raises HTTPException
\*           (404 / 400), or a collaborator raises something else
\*   files : the generated file the handler needs is in storage
\*           (Dockerfile for build, at least one .tf file otherwise)
Prechecks(h, conn, files, build_logs) ==
    IF conn = "rejected" THEN "http_connection"
    ELSE IF conn = "error" THEN "precheck_error"
    ELSE CASE h = "build" -> IF files THEN "ok" ELSE "http_no_files"
           [] h = "plan" ->
                IF ~files THEN "http_no_files"
                ELSE IF build_logs.is_none THEN "attribute_error"
                ELSE IF ~HasImageUri(build_logs.logs)
                     THEN "http_build_image_first"
                ELSE "ok"
           [] OTHER ->
                IF build_logs.is_none THEN "attribute_error" ELSE "ok"

\* the outcomes of Prechecks that are an HTTPException, re-raised as it is
HttpErrors == {"http_connection", "http_no_files", "http_build_image_first"}

\* a request arrives: the checks before the sandbox, then
\* register_deployment, the first send_log and SandboxManager(...)
HStart ==
    /\ hPc = "idle"
    /\ requests < MaxOps
    /\ requests' = requests + 1
    /\ hStep' = 0
    /\ release_count' = 0
    /\ commands' = <<>>
    /\ late_commands' = 0
    /\ collected_logs' = <<>>
    /\ \E h \in OpTypes, conn \in {"ok", "rejected", "error"}, files \in BOOLEAN,
          build_logs \in GetDeploymentLogs(deployment_logs, "build") :
        LET checks == Prechecks(h, conn, files, build_logs) IN
        /\ handler' = h
        /\ IF checks = "ok"
           THEN LET reg == RegisterDeployment(active_deployments, ProjectId,
                                              requests + 1)
                IN  /\ active_deployments' = reg
                    /\ queues' = SendLog(reg, queues, ProjectId,
                                         <<requests + 1, "start">>)
                    /\ sandbox_state' = "created"
                    /\ hPc' = "enter_scope"
                    /\ hExc' = None
                    /\ response' = "none"
           ELSE /\ UNCHANGED <<active_deployments, queues>>
                /\ sandbox_state' = "none"
                /\ IF checks \in HttpErrors
                   THEN hPc' = "idle" /\ hExc' = None /\ response' = checks
                   ELSE hPc' = "except" /\ hExc' = checks
                        /\ response' = "none"
    /\ outputs' = IF handler' = "apply" THEN None ELSE outputs
    /\ nonzero_exits' = {}
    /\ cleanup' = NoCleanup
    /\ UNCHANGED <<send_tasks, deployment_logs, deployment_status,
                   terraform_outputs, application_url>>
    /\ UNCHANGED hubRest
    /\ UNCHANGED <<wfVars, backendVars, credVars, alVars, tfVars, gcpVars>>

\* 'async with sandbox:' acquires the environment, then set_log_callback
HEnterScope ==
    /\ hPc = "enter_scope"
    /\ \E ok \in BOOLEAN :
        /\ SandboxEnter(ok)
        /\ IF ok
           THEN /\ hPc' = "in_scope"
                /\ hStep' = 1
                /\ UNCHANGED hExc
           ELSE /\ hPc' = "except"
                /\ hExc' = "provisioning_error"
                /\ UNCHANGED hStep
    /\ UNCHANGED <<requests, handler, response, release_count, commands,
                   late_commands, collected_logs, send_tasks, deployment_logs,
                   deployment_status, terraform_outputs, application_url,
                   outputs, nonzero_exits, cleanup>>
    /\ UNCHANGED hubVars
    /\ UNCHANGED <<wfVars, backendVars, credVars, alVars, tfVars, gcpVars>>

\* the steps that run a shell command with sandbox.run_command or
\* sandbox.build_docker_image (the others write files or call AWS)
CommandSteps ==
    {"git_clone", "build_docker_image", "docker_login", "docker_tag",
     "docker_push", "configure_aws_credentials", "mkdir_tf_dir",
     "terraform_init", "terraform_plan", "terraform_apply",
     "terraform_output", "terraform_destroy"}

\* the commands whose caller tests result["exit_code"] != 0 and raises
\* RuntimeError(f"... failed: {result['stderr']}")
ExitCodeChecked ==
    {"docker_login", "docker_tag", "docker_push", "terraform_init",
     "terraform_plan", "terraform_apply", "terraform_destroy"}

\* build_docker_image raises by itself when the build fails
BuildImageRaises == {"build_docker_image"}

\* the steps that log a line once they have succeeded
SuccessLineSteps ==
    {"ensure_ecr_repository", "git_clone", "write_dockerfile", "docker_login",
     "docker_push", "configure_aws_credentials", "write_tf_files",
     "setup_terraform_state", "write_tfvars", "terraform_init",
     "terraform_plan", "terraform_apply", "terraform_destroy"}

\* how a step can end: done (exit code 0), the command exits non-zero, or
\* the call raises (the sandbox or the AWS API fails, a timeout); the
\* output of 'terraform output -json' may also not be JSON
StepOutcomes(step) ==
    IF step = "cleanup_state" THEN {"ok"}
    ELSE IF step = "terraform_output"
    THEN {"ok", "nonzero", "raise", "unparseable"}
    ELSE IF step \in CommandSteps THEN {"ok", "nonzero", "raise"}
    ELSE {"ok", "raise"}

\* the step ends with an exception in the body of the scope
Raises(step, outcome) ==
    /\ step \notin NonRaisingSteps
    /\ \/ outcome = "raise"
       \/ outcome = "nonzero" /\ step \in ExitCodeChecked \cup BuildImageRaises

\* one step of the body of the scope
HStep ==
    /\ hPc = "in_scope"
    /\ LET step == ScopeSteps(handler)[hStep]
           tasks == IF step \in SandboxSteps THEN <<>> ELSE send_tasks
       IN
        /\ IssueCommand(step)
        /\ queues' = IF step \in SandboxSteps
                      THEN RunSendTasks(active_deployments, queues, ProjectId,
                                        send_tasks)
                      ELSE queues
        /\ \E outcome \in StepOutcomes(step) :
            /\ nonzero_exits' = IF outcome = "nonzero"
                                THEN nonzero_exits \cup {step}
                                ELSE nonzero_exits
            /\ outputs' \in IF step # "terraform_output" THEN {outputs}
                            ELSE IF outcome = "ok" THEN OutputValues
                            ELSE {"empty"}
            /\ cleanup' \in
                  IF step # "cleanup_state" THEN {cleanup}
                  ELSE {[calls |-> cleanup.calls + 1, deleted |-> r.deleted,
                         logged |-> r.logged, raised |-> r.raised] :
                            r \in {CleanupState(c, o, i) :
                                      c \in {"ok", "error"},
                                      o \in CleanupAnswers,
                                      i \in CleanupAnswers}}
            /\ IF ~Raises(step, outcome) /\ ~cleanup'.raised
               THEN /\ IF step \in SuccessLineSteps
                       THEN CollectingCallback(tasks, <<requests, step>>)
                       ELSE /\ UNCHANGED collected_logs
                            /\ send_tasks' = tasks
                    /\ hStep' = hStep + 1
                    /\ hPc' = IF hStep = Len(ScopeSteps(handler))
                              THEN "exit_scope" ELSE "in_scope"
                    /\ UNCHANGED hExc
               ELSE /\ IF handler = "build"
                       THEN CollectingCallback(tasks,
                                               <<requests, "build_failed">>)
                       ELSE /\ UNCHANGED collected_logs
                            /\ send_tasks' = tasks
                    /\ hExc' = IF outcome = "nonzero"
                               THEN "command_failed" ELSE "step_error"
                    /\ hPc' = "exit_scope"
                    /\ UNCHANGED hStep
    /\ UNCHANGED <<requests, handler, response, sandbox_state, release_count,
                   deployment_logs, deployment_status, terraform_outputs,
                   application_url>>
    /\ UNCHANGED <<active_deployments, hubRest>>
    /\ UNCHANGED <<wfVars, backendVars, credVars, alVars, tfVars, gcpVars>>

\* the request's task is cancelled while a step of the scope is awaited
HCancel ==
    /\ hPc = "in_scope"
    /\ ScopeSteps(handler)[hStep] # "cleanup_state"
    /\ hExc' = "cancelled"
    /\ hPc' = "exit_scope"
    /\ UNCHANGED <<requests, handler, hStep, response, sandbox_state,
                   release_count, commands, late_commands, collected_logs,
                   send_tasks, deployment_logs, deployment_status,
                   terraform_outputs, application_url, outputs,
                   nonzero_exits, cleanup>>
    /\ UNCHANGED hubVars
    /\ UNCHANGED <<wfVars, backendVars, credVars, alVars, tfVars, gcpVars>>

\* the scope exits, normally or by an exception: the environment is released
\* (a call to the sandbox provider, on which the handler is suspended)
HExitScope ==
    /\ hPc = "exit_scope"
    /\ SandboxExit
    /\ IF hExc = None
       THEN hPc' = "after_scope" /\ hStep' = 1 /\ UNCHANGED response
       ELSE IF hExc = "cancelled"
            THEN hPc' = "idle" /\ response' = "cancelled" /\ UNCHANGED hStep
            ELSE hPc' = "except" /\ UNCHANGED <<hStep, response>>
    /\ queues' = RunSendTasks(active_deployments, queues, ProjectId, send_tasks)
    /\ send_tasks' = <<>>
    /\ UNCHANGED <<requests, handler, hExc, commands, late_commands,
                   collected_logs, deployment_logs, deployment_status,
                   terraform_outputs, application_url, outputs,
                   nonzero_exits, cleanup>>
    /\ UNCHANGED <<active_deployments, hubRest>>
    /\ UNCHANGED <<wfVars, backendVars, credVars, alVars, tfVars, gcpVars>>

\* one step of the handler after the scope; a failure of a database call
\* goes to the handler's except clause
HAfterStep ==
    /\ hPc = "after_scope"
    /\ LET step == AfterScopeSteps(handler)[hStep] IN
        /\ IssueCommand(step)
        /\ \E ok \in BOOLEAN :
            /\ ok \/ step \in {"save_deployment_logs",
                               "update_project_deployment_status",
                               "clear_outputs"}
                  \/ (step = "store_outputs" /\ outputs # "empty")
            /\ deployment_logs' =
                  IF ok /\ step = "save_deployment_logs"
                  THEN Append(deployment_logs,
                              [operation_type |-> handler, status |-> "success",
                               logs |-> collected_logs])
                  ELSE deployment_logs
            /\ deployment_status' =
                  IF ok /\ step = "update_project_deployment_status"
                  THEN StatusAfter(handler) ELSE deployment_status
            /\ LET row == IF ok /\ step = "store_outputs" /\ outputs # "empty"
                          THEN StoreOutputs(outputs)
                          ELSE IF ok /\ step = "clear_outputs"
                          THEN ClearOutputs
                          ELSE [application_url |-> application_url,
                                terraform_outputs |-> terraform_outputs]
               IN  /\ application_url' = row.application_url
                   /\ terraform_outputs' = row.terraform_outputs
            /\ queues' =
                  IF step = "send_completion"
                  THEN SendCompletion(active_deployments, queues, ProjectId)
                  ELSE queues
            /\ IF ~ok
               THEN hPc' = "except" /\ hExc' = "db_error"
                    /\ UNCHANGED <<hStep, response>>
               ELSE IF step = "send_completion"
                    THEN hPc' = "idle" /\ response' = "success"
                         /\ UNCHANGED <<hStep, hExc>>
                    ELSE hPc' = "after_scope" /\ hStep' = hStep + 1
                         /\ UNCHANGED <<hExc, response>>
    /\ UNCHANGED <<requests, handler, sandbox_state, release_count,
                   collected_logs, send_tasks, outputs, nonzero_exits, cleanup>>
    /\ UNCHANGED <<active_deployments, hubRest>>
    /\ UNCHANGED <<wfVars, backendVars, credVars, alVars, tfVars, gcpVars>>

\* 'except Exception': the failed record, send_completion, HTTP 500; when
\* save_deployment_logs raises, its exception leaves the handler instead
HExcept ==
    /\ hPc = "except"
    /\ \E ok \in BOOLEAN :
        IF ok
        THEN /\ deployment_logs' =
                   Append(deployment_logs,
                          [operation_type |-> handler, status |-> "failed",
                           logs |-> <<<<"Error", hExc>>>>])
             /\ queues' = SendCompletion(active_deployments, queues, ProjectId)
             /\ response' = "http_500"
        ELSE /\ UNCHANGED <<deployment_logs, queues>>
             /\ response' = "unhandled"
    /\ hPc' = "idle"
    /\ UNCHANGED <<requests, handler, hStep, hExc, sandbox_state,
                   release_count, commands, late_commands, collected_logs,
                   send_tasks, deployment_status, terraform_outputs,
                   application_url, outputs, nonzero_exits, cleanup>>
    /\ UNCHANGED <<active_deployments, hubRest>>
    /\ UNCHANGED <<wfVars, backendVars, credVars, alVars, tfVars, gcpVars>>

NextDep ==
    \/ HStart
    \/ HEnterScope
    \/ HStep
    \/ HCancel
    \/ HExitScope
    \/ HAfterStep
    \/ HExcept

(***************************************************************************)
(* Claims about the deployment handlers, checked under SpecDep.            *)
(***************************************************************************)

\* C5: in every deployment operation the sandbox environment the scope
\* acquired is released exactly once, when the scope exits (normally, by an
\* exception or by a cancellation), and no command is issued to the sandbox
\* before it is acquired or after it is released.
C5_ScopedSandbox ==
    /\ release_count <= 1
    /\ late_commands = 0
    /\ sandbox_state \in {"none", "created"} => release_count = 0 /\ commands = <<>>
    /\ sandbox_state = "ready" => release_count = 0
    /\ sandbox_state = "closed" => release_count = 1
    /\ hPc \in {"after_scope", "except", "idle"} => sandbox_state # "ready"

\* a destroy whose terraform destroy command failed has released its sandbox
C5_Witness ==
    /\ handler = "destroy"
    /\ hExc = "command_failed"
    /\ hPc = "idle"
    /\ response = "http_500"
    /\ commands = SubSeq(ScopeSteps("destroy"), 1, 7)
    /\ sandbox_state = "closed"
    /\ release_count = 1

\* no answer of the build-log lookup carries an image URI
NoImageUri ==
    \A a \in GetDeploymentLogs(deployment_logs, "build") : ~HasImageUri(a.logs)

\* the current request got as far as reading the build logs
ReachedBuildLogs ==
    /\ response \notin {"http_connection", "http_no_files"}
    /\ hExc # "precheck_error"

\* C11: a plan requested when no image URI is discoverable in the build logs
\* fails with the user-facing 'build the image first' error; no sandbox is
\* acquired and no Terraform command is invoked for the request.
C11_BuildImageFirst ==
    (handler = "plan" /\ NoImageUri /\ ReachedBuildLogs) =>
        /\ hPc = "idle"
        /\ response = "http_build_image_first"
        /\ sandbox_state = "none"
        /\ commands = <<>>

\* C12: after a successful apply has stored the Terraform outputs and the
\* application URL, a successful destroy leaves the project's application
\* URL and Terraform outputs null and its deployment status 'destroyed'.
C12_DestroyClears ==
    (handler = "destroy" /\ hPc = "idle" /\ response = "success") =>
        /\ application_url = Null
        /\ terraform_outputs = Null
        /\ deployment_status = "destroyed"

\* a destroy has succeeded after an apply that read outputs with
\* alb_dns_name and succeeded
C12_Witness ==
    /\ handler = "destroy"
    /\ hPc = "idle"
    /\ response = "success"
    /\ outputs = "with_alb"
    /\ LatestOf(deployment_logs, "apply") > 0
    /\ \A i \in 1..Len(deployment_logs) : deployment_logs[i].status = "success"
    /\ application_url = Null
    /\ terraform_outputs = Null

\* the sandbox commands the claim names: clone, image build, registry
\* login, tag, push, terraform init / plan / apply / destroy
ToolCommands ==
    {"git_clone", "build_docker_image", "docker_login", "docker_tag",
     "docker_push", "terraform_init", "terraform_plan", "terraform_apply",
     "terraform_destroy"}

\* C19: a sandbox command that exits non-zero makes its operation fail
\* with an error that carries the command's stderr: the failure is not
\* swallowed, no later step of the operation runs and no success line is
\* logged for the command.
C19_NonzeroExitFails ==
    \A step \in nonzero_exits \cap ToolCommands :
        /\ hExc = "command_failed"
        /\ commands[Len(commands)] = step
        /\ \A i \in 1..Len(collected_logs) :
              collected_logs[i] # <<requests, step>>
        /\ hPc = "idle" => response \in {"http_500", "unhandled"}

\* C21: terraform destroy runs only for a project in the APPLIED state
\* (deployment status "deployed"); a destroy requested in any other state
\* neither runs the destroy command nor marks the project destroyed.
C21_DestroyStep ==
    /\ (/\ Len(commands') = Len(commands) + 1
        /\ commands'[Len(commands')] = "terraform_destroy")
           => deployment_status = "deployed"
    /\ (deployment_status' = "destroyed" /\ deployment_status # "destroyed")
           => deployment_status = "deployed"

C21_DestroyOnlyApplied == [][C21_DestroyStep]_vars

\* the shared infrastructure and the project's own entries in it
SharedInfrastructure == {"bucket", "lock_table"}

C23_CleanupStep ==
    cleanup'.calls = cleanup.calls + 1 =>
        /\ handler = "destroy"
        /\ hExc = None
        /\ commands # <<>>
        /\ commands[Len(commands)] = "terraform_destroy"
        /\ "terraform_destroy" \notin nonzero_exits
        /\ ~cleanup'.raised
        /\ hExc' = None
        /\ hPc' = "exit_scope"

C23_CleanupHarmless ==
    /\ cleanup.deleted \cap SharedInfrastructure = {}
    /\ cleanup.calls > 0 => hExc \in {None, "db_error"}

\* C23: cleanup_state is called only after terraform destroy has succeeded;
\* a failure inside it (the clients, the state object, the lock entry) is
\* logged and never raised, so the destroy goes on to its success path; the
\* shared bucket and lock table are never deleted.
C23_CleanupBestEffort == []C23_CleanupHarmless /\ [][C23_CleanupStep]_vars

C23_Witness ==
    /\ handler = "destroy"
    /\ cleanup.calls = 1
    /\ cleanup.logged # {}
    /\ hPc = "idle"
    /\ response = "success"
    /\ deployment_status = "destroyed"

C24_OutputStep ==
    (/\ hPc = "in_scope"
     /\ ScopeSteps(handler)[hStep] = "terraform_output"
     /\ hPc' # "in_scope"
     /\ hExc' # "cancelled")
        => /\ hExc' = None
           /\ hPc' = "exit_scope"
           /\ outputs' \in OutputValues

C24_ApplySucceeds ==
    (handler = "apply" /\ "terraform_output" \in nonzero_exits) =>
        /\ outputs = "empty"
        /\ hExc \in {None, "db_error"}
        /\ (hPc = "idle" /\ hExc = None) =>
              /\ response = "success"
              /\ deployment_status = "deployed"
              /\ deployment_logs[Len(deployment_logs)].operation_type = "apply"
              /\ deployment_logs[Len(deployment_logs)].status = "success"

\* C24: when reading or parsing the Terraform outputs fails after a
\* successful terraform apply, terraform_apply returns an empty map and
\* does not raise, and the apply still ends as a success: the log is saved
\* with status success and the project is marked deployed.
C24_OutputFailureNonFatal == []C24_ApplySucceeds /\ [][C24_OutputStep]_vars

C24_Witness ==
    /\ handler = "apply"
    /\ "terraform_output" \in nonzero_exits
    /\ outputs = "empty"
    /\ hPc = "idle"
    /\ response = "success"
    /\ deployment_status = "deployed"

\* the responses that report a failure of the request
FailureResponses ==
    HttpErrors \cup {"http_500", "unhandled"}

\* C27: a build, plan, apply or destroy request that ends in a failure
\* response has persisted, before the response, a log entry of the
\* operation with an error status; this holds for every cause of failure,
\* the preconditions rejected before the sandbox is created included.
C27_FailurePersisted ==
    (hPc = "idle" /\ response \in FailureResponses) =>
        /\ deployment_logs # <<>>
        /\ deployment_logs[Len(deployment_logs)].operation_type = handler
        /\ deployment_logs[Len(deployment_logs)].status = "failed"

\* the queue registered for the project, empty when there is none
ProjectQueue ==
    IF active_deployments[ProjectId] = NoQueue
    THEN <<>>
    ELSE queues[active_deployments[ProjectId]]

\* the handler has called send_completion and answered
CompletionSent == hPc = "idle" /\ response \in {"success", "http_500"}

C29_SentinelLast ==
    (CompletionSent /\ active_deployments[ProjectId] # NoQueue) =>
        /\ send_tasks = <<>>
        /\ ProjectQueue # <<>>
        /\ ProjectQueue[Len(ProjectQueue)] = StreamComplete
        /\ \A i \in 1..Len(collected_logs) :
              \E j \in 1..(Len(ProjectQueue) - 1) :
                  /\ ProjectQueue[j] = collected_logs[i]
                  /\ \A k \in j..(Len(ProjectQueue) - 1) :
                        ProjectQueue[k] # StreamComplete

C29_SentinelStep ==
    (/\ active_deployments[ProjectId] # NoQueue
     /\ active_deployments' = active_deployments
     /\ Len(ProjectQueue') = Len(ProjectQueue) + 1
     /\ ProjectQueue'[Len(ProjectQueue')] = StreamComplete)
        => send_tasks = <<>>

SentinelsOfRequest ==
    {i \in 1..Len(ProjectQueue) :
        /\ ProjectQueue[i] = StreamComplete
        /\ \E j \in 1..(i - 1) : ProjectQueue[j] = <<requests, "start">>}

\* C32: a handler that has registered a log queue has enqueued the sentinel
\* exactly once when it returns or raises, on the success path and on every
\* failure path, a failure of the database calls that follow a successful
\* tool run included.
C32_SentinelExactlyOnce ==
    (hPc = "idle" /\ requests > 0 /\ sandbox_state # "none") =>
        Cardinality(SentinelsOfRequest) = 1

\* the success entries this request has persisted: a success entry carries
\* the lines the request has collected
SuccessEntriesOfRequest ==
    {i \in 1..Len(deployment_logs) :
        /\ deployment_logs[i].status = "success"
        /\ \E j \in 1..Len(deployment_logs[i].logs) :
                deployment_logs[i].logs[j][1] = requests}

\* C37: an operation that is reported to the caller as failed has recorded
\* no log entry with status success: its failed entry, if it wrote one, is
\* the only entry of the operation.
C37_FailureWritesNoSuccess ==
    (hPc = "idle" /\ requests > 0 /\ response \in FailureResponses) =>
        SuccessEntriesOfRequest = {}

\* C38: an apply requested when no image URI is discoverable in the build
\* logs acquires no sandbox and issues no command: no tfvars file is written
\* and Terraform is not run for the request.
C38_ApplyNeedsImage ==
    (handler = "apply" /\ requests > 0 /\ NoImageUri) =>
        /\ sandbox_state = "none"
        /\ commands = <<>>

(***************************************************************************)
(* The state backend managers                                              *)
(* (src/src/services/deployment/gcs_state_manager.py, s3_state_manager.py) *)
(***************************************************************************)

Callers == 1..MaxCallers

\* the cloud accounts: GCP project ids, AWS account ids
Accounts == {"acct1", "acct2"}

\* f"sirpi-terraform-states-{gcp_project_id}" / f"...-{account_id}"
BucketName(account) == <<"sirpi-terraform-states", account>>

BucketNames == {BucketName(a) : a \in Accounts}

NoBucket == <<>>

Succeeded(bucket) == [status |-> "ok", bucket |-> bucket, cause |-> None]

Failed(cause) == [status |-> "failed", bucket |-> NoBucket, cause |-> cause]

NotCalled == [status |-> "none", bucket |-> NoBucket, cause |-> None]

InitBackend ==
    /\ provider \in {"gcs", "s3"}
    /\ buckets \in SUBSET BucketNames
    /\ created = [n \in BucketNames |-> 0]
    /\ api_enabled \in BOOLEAN
    /\ provider = "s3" => api_enabled
    /\ bPc = [c \in Callers |-> "start"]
    /\ bAccount \in [Callers -> Accounts]
    /\ bResult = [c \in Callers |-> NotCalled]

\* the callers have not started: one of the initial states
BackendIdle ==
    /\ InitBackend
    /\ provider = "gcs"
    /\ buckets = {}
    /\ api_enabled
    /\ bAccount = [c \in Callers |-> "acct1"]

Return(c, result) ==
    /\ bPc' = [bPc EXCEPT ![c] = "done"]
    /\ bResult' = [bResult EXCEPT ![c] = result]

Goto(c, label) ==
    /\ bPc' = [bPc EXCEPT ![c] = label]
    /\ UNCHANGED bResult

\* storage_client.get_bucket(bucket_name) and its except clauses
GetBucket(c, disabled) ==
    IF ~api_enabled
    THEN disabled
    ELSE IF BucketName(bAccount[c]) \in buckets
         THEN Return(c, Succeeded(BucketName(bAccount[c])))
         ELSE Goto(c, "create")

\* ensure_gcs_state_bucket, lines 45-57: the first get_bucket; Forbidden
\* with SERVICE_DISABLED goes on to enable the API
GcsGetBucket(c) ==
    /\ provider = "gcs"
    /\ bPc[c] = "start"
    /\ GetBucket(c, Goto(c, "enable"))
    /\ UNCHANGED <<provider, buckets, created, api_enabled, bAccount>>
    /\ UNCHANGED <<wfVars, hubVars, depVars, credVars, alVars, tfVars, gcpVars>>

\* enable_storage_api, lines 119-150: a failure to enable is only logged
GcsEnableApi(c) ==
    /\ provider = "gcs"
    /\ bPc[c] = "enable"
    /\ \E ok \in BOOLEAN : api_enabled' = (api_enabled \/ ok)
    /\ Goto(c, "retry")
    /\ UNCHANGED <<provider, buckets, created, bAccount>>
    /\ UNCHANGED <<wfVars, hubVars, depVars, credVars, alVars, tfVars, gcpVars>>

\* lines 65-72: get_bucket again after the sleep; a Forbidden raised here
\* reaches the outer clause of line 98 and becomes a RuntimeError
GcsRetry(c) ==
    /\ provider = "gcs"
    /\ bPc[c] = "retry"
    /\ GetBucket(c, Return(c, Failed("api_disabled")))
    /\ UNCHANGED <<provider, buckets, created, api_enabled, bAccount>>
    /\ UNCHANGED <<wfVars, hubVars, depVars, credVars, alVars, tfVars, gcpVars>>

\* 'except exceptions.AlreadyExists', lines 108-111
AlreadyExistsIsSuccess(c) == Succeeded(BucketName(bAccount[c]))

\* lines 78-96: create_bucket
GcsCreate(c) ==
    /\ provider = "gcs"
    /\ bPc[c] = "create"
    /\ LET name == BucketName(bAccount[c]) IN
        IF name \in buckets
        THEN /\ Return(c, AlreadyExistsIsSuccess(c))
             /\ UNCHANGED <<buckets, created>>
        ELSE /\ buckets' = buckets \cup {name}
             /\ created' = [created EXCEPT ![name] = @ + 1]
             /\ Return(c, Succeeded(name))
    /\ UNCHANGED <<provider, api_enabled, bAccount>>
    /\ UNCHANGED <<wfVars, hubVars, depVars, credVars, alVars, tfVars, gcpVars>>

\* S3StateManager.ensure_state_bucket, lines 99-116: head_bucket; a missing
\* bucket is an error, it is never created
S3HeadBucket(c) ==
    /\ provider = "s3"
    /\ bPc[c] = "start"
    /\ IF BucketName(bAccount[c]) \in buckets
       THEN Goto(c, "describe_table")
       ELSE Return(c, Failed("bucket_not_found"))
    /\ UNCHANGED <<provider, buckets, created, api_enabled, bAccount>>
    /\ UNCHANGED <<wfVars, hubVars, depVars, credVars, alVars, tfVars, gcpVars>>

\* lines 118-131 and configure_backend: the lock table is looked up, whatever
\* the answer the configuration naming the bucket is returned
S3DescribeTable(c) ==
    /\ provider = "s3"
    /\ bPc[c] = "describe_table"
    /\ Return(c, Succeeded(BucketName(bAccount[c])))
    /\ UNCHANGED <<provider, buckets, created, api_enabled, bAccount>>
    /\ UNCHANGED <<wfVars, hubVars, depVars, credVars, alVars, tfVars, gcpVars>>

NextBackend ==
    \E c \in Callers :
        \/ GcsGetBucket(c)
        \/ GcsEnableApi(c)
        \/ GcsRetry(c)
        \/ GcsCreate(c)
        \/ S3HeadBucket(c)
        \/ S3DescribeTable(c)

(***************************************************************************)
(* Claims about the state backend, checked under SpecBackend.              *)
(***************************************************************************)

\* C9: ensure_backend is idempotent.  Every call that has returned, one
\* after the other or concurrently, has succeeded and names the bucket of
\* its project (so two calls for one project name the same bucket), an
\* 'already exists' answer to the creation being a success, and no bucket
\* is created twice.  (A call that failed because the Cloud Storage API
\* could not be enabled is a fault of the environment and is left out.)
C9_Idempotent ==
    /\ \A c \in Callers :
          bPc[c] = "done" /\ bResult[c].cause # "api_disabled" =>
              bResult[c] = Succeeded(BucketName(bAccount[c]))
    /\ \A n \in BucketNames : created[n] <= 1

\* C22: a call for a project whose bucket does not exist creates the
\* bucket and returns its configuration instead of failing; a call that
\* finds the bucket returns the configuration and creates nothing.  (A call
\* that failed because the Cloud Storage API could not be enabled is left
\* out.)
C22_Returned ==
    \A c \in Callers :
        bPc[c] = "done" /\ bResult[c].cause # "api_disabled" =>
            /\ bResult[c].status = "ok"
            /\ bResult[c].bucket \in buckets

C22_Step == \A n \in buckets : created'[n] = created[n]

C22_CreatesMissingBucket == []C22_Returned /\ [][C22_Step]_vars

(***************************************************************************)
(* The credential brokers: _get_credentials of S3StateManager,             *)
(* AWSDeploymentService and AWSDockerBuildService                          *)
(***************************************************************************)

Brokers == 1..MaxBrokers

\* self._credentials = None
NoCredentials == 0

\* (mutant of CacheHit: the cache is never consulted)
CacheHit_never(cached) == FALSE

\* 'if self._credentials: return self._credentials'
CacheHit(cached) == cached # NoCredentials

InitCreds ==
    /\ constructed = {}
    /\ credentials = [b \in Brokers |-> NoCredentials]
    /\ issued = 0
    /\ assume_calls = [b \in Brokers |-> 0]
    /\ calls = [b \in Brokers |-> 0]
    /\ returned = [b \in Brokers |-> <<>>]

\* __init__: a broker is constructed with an empty cache
Construct(b) ==
    /\ b \notin constructed
    /\ constructed' = constructed \cup {b}
    /\ credentials' = [credentials EXCEPT ![b] = NoCredentials]
    /\ UNCHANGED <<issued, assume_calls, calls, returned>>
    /\ UNCHANGED <<wfVars, hubVars, depVars, backendVars, alVars, tfVars, gcpVars>>

\* _get_credentials: the cached bundle, or assume_role; the bundle STS
\* answers with is a new one each time, a ClientError leaves the cache empty
GetCredentials(b) ==
    /\ b \in constructed
    /\ calls[b] < MaxCalls
    /\ calls' = [calls EXCEPT ![b] = @ + 1]
    /\ IF CacheHit(credentials[b])
       THEN /\ returned' = [returned EXCEPT ![b] = Append(@, credentials[b])]
            /\ UNCHANGED <<credentials, issued, assume_calls>>
       ELSE /\ assume_calls' = [assume_calls EXCEPT ![b] = @ + 1]
            /\ \E ok \in BOOLEAN :
                IF ok
                THEN /\ issued' = issued + 1
                     /\ credentials' = [credentials EXCEPT ![b] = issued + 1]
                     /\ returned' = [returned EXCEPT ![b] = Append(@, issued + 1)]
                ELSE UNCHANGED <<issued, credentials, returned>>
    /\ UNCHANGED constructed
    /\ UNCHANGED <<wfVars, hubVars, depVars, backendVars, alVars, tfVars, gcpVars>>

NextCreds ==
    \E b \in Brokers :
        \/ Construct(b)
        \/ GetCredentials(b)

(***************************************************************************)
(* Claims about the credential brokers, checked under SpecCreds.           *)
(***************************************************************************)

C10_Cached ==
    \A b \in Brokers :
        /\ \A i \in 1..Len(returned[b]) : returned[b][i] = returned[b][1]
        /\ returned[b] # <<>> => credentials[b] = returned[b][1]
        /\ \A b2 \in Brokers \ {b} :
              \A i \in 1..Len(returned[b]), j \in 1..Len(returned[b2]) :
                  returned[b][i] # returned[b2][j]

C10_Step ==
    \A b \in Brokers :
        /\ returned[b] # <<>> => assume_calls'[b] = assume_calls[b]
        /\ calls[b] = 0 /\ calls'[b] = 1 => assume_calls'[b] = 1

\* C10: credential caching.  On one broker, after a first successful
\* _get_credentials every later call returns the identical cached bundle and
\* makes no further assume-role call; the first call on a newly constructed
\* broker makes an assume-role call, and its bundle is not that of another
\* broker.
C10_CredentialCaching == []C10_Cached /\ [][C10_Step]_vars

\* three calls on one broker returned one bundle from one assume-role call,
\* and a second broker made its own call and got another bundle
C10_Witness ==
    /\ Len(returned[1]) = MaxCalls
    /\ assume_calls[1] = 1
    /\ returned[2] # <<>>
    /\ assume_calls[2] >= 1
    /\ returned[2][1] # returned[1][1]

(***************************************************************************)
(* The agent log stream                                                    *)
(* (src/src/agentcore/orchestrator.py, stream_agent_logs)                  *)
(***************************************************************************)

\* the most rows the session's agents insert
MaxRows == 2

\* max_wait_seconds of stream_agent_logs
MaxWaitSeconds == 120

Agents == {"orchestrator", "dockerfile_generator"}

AgentStages == {"generating", "completed"}

\* the n-th row of agent_logs for the session
AgentLogRow(n, agent, stage) == [n |-> n, agent |-> agent, stage |-> stage]

\* log_data.get("stage") in ["completed", "failed"] and
\* log_data.get("agent") == "orchestrator"
EndsWorkflow(row) == row.stage = "completed" /\ row.agent = "orchestrator"

\* the event yielded for a row
AgentLogEvent(row) == <<"agent_log", row>>

InitAgentLogs ==
    /\ alPc = "none"
    /\ agent_logs = <<>>
    /\ rows = <<>>
    /\ row_index = 0
    /\ listen_conn = "none"
    /\ listen_cur = FALSE
    /\ listening = FALSE
    /\ notifies = <<>>
    /\ events = <<>>
    /\ elapsed = 0
    /\ unlisten_calls = 0
    /\ close_calls = 0
    /\ stream_exit = None
    /\ propagated = None

\* an agent of the session logs a line: the INSERT into agent_logs, whose
\* trigger notifies the connections listening on the session's channel
\* (orchestrator.py:101-110); nothing is logged once the workflow has ended
AlInsert ==
    /\ Len(agent_logs) < MaxRows
    /\ \A i \in 1..Len(agent_logs) : ~EndsWorkflow(agent_logs[i])
    /\ \E agent \in Agents, stage \in AgentStages :
        LET row == AgentLogRow(Len(agent_logs) + 1, agent, stage) IN
        /\ agent_logs' = Append(agent_logs, row)
        /\ notifies' = IF listening THEN Append(notifies, row) ELSE notifies
    /\ UNCHANGED <<alPc, rows, row_index, listen_conn, listen_cur, listening,
                   events, elapsed, unlisten_calls, close_calls, stream_exit,
                   propagated>>
    /\ UNCHANGED <<wfVars, hubVars, depVars, backendVars, credVars, tfVars, gcpVars>>

\* the finally clause, lines 463-476: UNLISTEN if cur, conn.close() if conn
AlFinally(cause) ==
    /\ unlisten_calls' = IF listen_cur THEN unlisten_calls + 1
                         ELSE unlisten_calls
    /\ close_calls' = IF listen_conn # "none" THEN close_calls + 1
                      ELSE close_calls
    /\ listen_conn' = IF listen_conn # "none" THEN "closed" ELSE "none"
    /\ listening' = FALSE
    /\ alPc' = "closed"
    /\ stream_exit' = cause

\* the generator starts: the historical query, lines 379-408. An exception
\* of the query is logged and the generator goes on to the live part.
AlStart ==
    /\ alPc = "none"
    /\ \E ok \in BOOLEAN :
        IF ok /\ agent_logs # <<>>
        THEN /\ rows' = agent_logs
             /\ row_index' = 1
             /\ events' = Append(events, AgentLogEvent(agent_logs[1]))
             /\ alPc' = "history"
        ELSE /\ rows' = IF ok THEN agent_logs ELSE <<>>
             /\ row_index' = 0
             /\ alPc' = "setup"
             /\ UNCHANGED events
    /\ UNCHANGED <<agent_logs, listen_conn, listen_cur, listening, notifies,
                   elapsed, unlisten_calls, close_calls, stream_exit,
                   propagated>>
    /\ UNCHANGED <<wfVars, hubVars, depVars, backendVars, credVars, tfVars, gcpVars>>

\* resumed after a historical row: the next row, or the live part
AlHistoryResume ==
    /\ alPc = "history"
    /\ IF row_index < Len(rows)
       THEN /\ row_index' = row_index + 1
            /\ events' = Append(events, AgentLogEvent(rows[row_index + 1]))
            /\ alPc' = "history"
       ELSE /\ alPc' = "setup"
            /\ UNCHANGED <<row_index, events>>
    /\ UNCHANGED <<agent_logs, rows, listen_conn, listen_cur, listening,
                   notifies, elapsed, unlisten_calls, close_calls, stream_exit,
                   propagated>>
    /\ UNCHANGED <<wfVars, hubVars, depVars, backendVars, credVars, tfVars, gcpVars>>

\* get_raw_connection, cursor, LISTEN, lines 414-425; a failure at any of
\* the three goes to 'except Exception', which yields the error event
AlSetup ==
    /\ alPc = "setup"
    /\ \E reached \in {"nothing", "conn", "cur", "listen"} :
        /\ listen_conn' = IF reached = "nothing" THEN "none" ELSE "open"
        /\ listen_cur' = (reached \in {"cur", "listen"})
        /\ listening' = (reached = "listen")
        /\ IF reached = "listen"
           THEN /\ alPc' = "loop"
                /\ UNCHANGED events
           ELSE /\ alPc' = "yield_error"
                /\ events' = Append(events, <<"error">>)
    /\ elapsed' = 0
    /\ UNCHANGED <<agent_logs, rows, row_index, notifies, unlisten_calls,
                   close_calls, stream_exit, propagated>>
    /\ UNCHANGED <<wfVars, hubVars, depVars, backendVars, credVars, tfVars, gcpVars>>

\* the top of the loop, lines 427-440: the wait ceiling, then select with a
\* one second timeout; a notification is popped and yielded
AlLoop ==
    /\ alPc = "loop"
    /\ IF elapsed > MaxWaitSeconds
       THEN /\ AlFinally("timeout")
            /\ UNCHANGED <<notifies, events, elapsed>>
       ELSE IF notifies # <<>>
       THEN /\ notifies' = Tail(notifies)
            /\ events' = Append(events, AgentLogEvent(Head(notifies)))
            /\ alPc' = "yield_live"
            /\ UNCHANGED <<elapsed, listen_conn, listening, unlisten_calls,
                           close_calls, stream_exit>>
       ELSE /\ elapsed' = elapsed + 1
            /\ alPc' = "sleep"
            /\ UNCHANGED <<notifies, events, listen_conn, listening,
                           unlisten_calls, close_calls, stream_exit>>
    /\ UNCHANGED <<agent_logs, rows, row_index, listen_cur, propagated>>
    /\ UNCHANGED <<wfVars, hubVars, depVars, backendVars, credVars, tfVars, gcpVars>>

\* conn.poll() or json.loads raises in the loop: the error event
AlLoopError ==
    /\ alPc = "loop"
    /\ elapsed <= MaxWaitSeconds
    /\ events' = Append(events, <<"error">>)
    /\ alPc' = "yield_error"
    /\ UNCHANGED <<agent_logs, rows, row_index, listen_conn, listen_cur,
                   listening, notifies, elapsed, unlisten_calls, close_calls,
                   stream_exit, propagated>>
    /\ UNCHANGED <<wfVars, hubVars, depVars, backendVars, credVars, tfVars, gcpVars>>

\* resumed after a live event, lines 442-450: return after the event that
\* ends the workflow, else the next notification, else sleep(0)
AlLiveResume ==
    /\ alPc = "yield_live"
    /\ IF EndsWorkflow(events[Len(events)][2])
       THEN /\ AlFinally("sentinel")
            /\ UNCHANGED <<notifies, events>>
       ELSE IF notifies # <<>>
       THEN /\ notifies' = Tail(notifies)
            /\ events' = Append(events, AgentLogEvent(Head(notifies)))
            /\ alPc' = "yield_live"
            /\ UNCHANGED <<listen_conn, listening, unlisten_calls,
                           close_calls, stream_exit>>
       ELSE /\ alPc' = "sleep"
            /\ UNCHANGED <<notifies, events, listen_conn, listening,
                           unlisten_calls, close_calls, stream_exit>>
    /\ UNCHANGED <<agent_logs, rows, row_index, listen_cur, elapsed,
                   propagated>>
    /\ UNCHANGED <<wfVars, hubVars, depVars, backendVars, credVars, tfVars, gcpVars>>

\* await asyncio.sleep(0) returns, line 453
AlSleepResume ==
    /\ alPc = "sleep"
    /\ alPc' = "loop"
    /\ UNCHANGED <<agent_logs, rows, row_index, listen_conn, listen_cur,
                   listening, notifies, events, elapsed, unlisten_calls,
                   close_calls, stream_exit, propagated>>
    /\ UNCHANGED <<wfVars, hubVars, depVars, backendVars, credVars, tfVars, gcpVars>>

\* resumed after the error event: the finally clause
AlErrorResume ==
    /\ alPc = "yield_error"
    /\ AlFinally("error")
    /\ UNCHANGED <<agent_logs, rows, row_index, listen_cur, notifies, events,
                   elapsed, propagated>>
    /\ UNCHANGED <<wfVars, hubVars, depVars, backendVars, credVars, tfVars, gcpVars>>

\* the consumer goes away while the generator is suspended in the try
\* statement: 'except asyncio.CancelledError: raise' and
\* 'except GeneratorExit: raise' (lines 455-460) come before
\* 'except Exception', then the finally clause runs
AlCancel ==
    /\ alPc \in {"sleep", "yield_live", "yield_error"}
    /\ propagated' = CancelSignal(alPc = "sleep")
    /\ AlFinally("cancel")
    /\ UNCHANGED <<agent_logs, rows, row_index, listen_cur, notifies, events,
                   elapsed>>
    /\ UNCHANGED <<wfVars, hubVars, depVars, backendVars, credVars, tfVars, gcpVars>>

\* the consumer goes away during the historical replay: GeneratorExit
\* passes 'except Exception' at line 406; no listener exists yet
AlCancelHistory ==
    /\ alPc = "history"
    /\ IF CaughtByExceptException(CancelSignal(FALSE))
       THEN /\ alPc' = "setup"
            /\ stream_exit' = "cancel_history"
            /\ UNCHANGED propagated
       ELSE /\ alPc' = "closed"
            /\ propagated' = CancelSignal(FALSE)
            /\ stream_exit' = "cancel_history"
    /\ UNCHANGED <<agent_logs, rows, row_index, listen_conn, listen_cur,
                   listening, notifies, events, elapsed, unlisten_calls,
                   close_calls>>
    /\ UNCHANGED <<wfVars, hubVars, depVars, backendVars, credVars, tfVars, gcpVars>>

NextAgentLogs ==
    \/ AlInsert
    \/ AlStart
    \/ AlHistoryResume
    \/ AlSetup
    \/ AlLoop
    \/ AlLoopError
    \/ AlLiveResume
    \/ AlSleepResume
    \/ AlErrorResume
    \/ AlCancel
    \/ AlCancelHistory

\* the events of the notifications that wait on the listening connection
PendingEvents == [i \in 1..Len(notifies) |-> AgentLogEvent(notifies[i])]

\* the events of the rows the session holds, in timestamp order
RowEvents == [i \in 1..Len(agent_logs) |-> AgentLogEvent(agent_logs[i])]

\* C35: stream_agent_logs delivers every row of the session exactly once,
\* the historical rows first and in order: while the stream listens, the
\* events it has yielded followed by the notifications it has still to
\* yield are the rows of the session, none missing and none twice, a row
\* inserted between the historical query and LISTEN included.
C35_EveryRowOnce ==
    alPc \in {"loop", "sleep", "yield_live"} =>
        events \o PendingEvents = RowEvents

\* the generator is resumed after an event that ends the workflow
ResumedAfterEnd ==
    /\ alPc \in {"history", "yield_live"}
    /\ events # <<>>
    /\ events[Len(events)][1] = "agent_log"
    /\ EndsWorkflow(events[Len(events)][2])
    /\ (alPc' # alPc \/ events' # events)

C36_EndStep == ResumedAfterEnd => alPc' = "closed"

\* C36: stream_agent_logs ends as soon as it has yielded the orchestrator's
\* event that ends the workflow, whether the event came from the historical
\* replay or from a notification: resumed after it, the generator is closed.
C36_EndsAfterFinalEvent == [][C36_EndStep]_vars

(***************************************************************************)
(* The Terraform directory before terraform init                           *)
(* (src/src/api/aws_deployments.py, lines 267-311, 413-445, 566-598;       *)
(* src/src/services/deployment/aws_deployment.py, setup_terraform_state)   *)
(***************************************************************************)

\* the most declarations and resources an uploaded file holds
MaxItems == 2

\* A file's content is a sequence of tokens: the word backend, white space
\* (one blank, or any other run of white space), a quoted name, braces and
\* other text.
Blank == " "

WhiteSpace == {Blank, "  "}

Quoted == {"\"s3\"", "\"gcs\"", "\"local\""}

\* a backend declaration: backend, white space, the type, its body, which
\* may hold a nested block
BackendBlock(type, space, nested) ==
    <<"backend", space, type, Blank, "{", "x">>
        \o (IF nested THEN <<"{", "x", "}">> ELSE <<>>) \o <<"}">>

\* the pieces an uploaded file is made of
Items ==
    {<<"x">>}
        \cup {BackendBlock(t, w, n) : t \in Quoted, w \in WhiteSpace,
                                      n \in BOOLEAN}

RECURSIVE Contents(_)
Contents(n) ==
    IF n = 0 THEN {<<>>}
    ELSE Contents(n - 1)
            \cup {c \o i : c \in Contents(n - 1), i \in Items}

\* the names of the uploaded files
TfNames == {"main.tf", "backend.tf"}

\* configure_backend: the generated backend.tf
GeneratedBackend == <<"terraform", Blank, "{">>
                        \o BackendBlock("\"s3\"", Blank, FALSE) \o <<"}">>

\* the position after the white space that starts at i
RECURSIVE SkipSpace(_, _)
SkipSpace(c, i) ==
    IF i <= Len(c) /\ c[i] \in WhiteSpace THEN SkipSpace(c, i + 1) ELSE i

\* the position of the first "}" at or after i, 0 when there is none
RECURSIVE FirstClose(_, _)
FirstClose(c, i) ==
    IF i > Len(c) THEN 0
    ELSE IF c[i] = "}" THEN i ELSE FirstClose(c, i + 1)

\* the pattern backend\s+"[^"]+"\s*\{ matches at i: the position of its "{",
\* 0 when it does not match
HeaderAt(c, i) ==
    IF i + 2 <= Len(c) /\ c[i] = "backend" /\ c[i + 1] \in WhiteSpace
    THEN LET j == SkipSpace(c, i + 1) IN
         IF j <= Len(c) /\ c[j] \in Quoted
         THEN LET k == SkipSpace(c, j + 1) IN
              IF k <= Len(c) /\ c[k] = "{" THEN k ELSE 0
         ELSE 0
    ELSE 0

\* the pattern backend\s+"[^"]+"\s*\{[^}]*\} matches at i: the position of
\* its last character, 0 when it does not match
MatchEnd(c, i) ==
    IF HeaderAt(c, i) = 0 THEN 0 ELSE FirstClose(c, HeaderAt(c, i) + 1)

\* re.sub(pattern, "", content): every match, left to right, is removed
RECURSIVE ReSub(_, _)
ReSub(c, i) ==
    IF i > Len(c) THEN <<>>
    ELSE IF MatchEnd(c, i) # 0 THEN ReSub(c, MatchEnd(c, i) + 1)
    ELSE <<c[i]>> \o ReSub(c, i + 1)

\* 'backend "s3"' in content or 'backend "gcs"' in content
MentionsBackend(c) ==
    \E i \in 1..(Len(c) - 2) :
        /\ c[i] = "backend"
        /\ c[i + 1] = Blank
        /\ c[i + 2] \in {"\"s3\"", "\"gcs\""}

\* what the write loop writes for an uploaded file
StripBackend(c) == IF MentionsBackend(c) THEN ReSub(c, 1) ELSE c

\* the content declares a backend: backend, white space, a quoted type
DeclaresBackend(c) ==
    \E i \in 1..Len(c) :
        /\ c[i] = "backend"
        /\ i + 1 <= Len(c) /\ c[i + 1] \in WhiteSpace
        /\ SkipSpace(c, i + 1) <= Len(c)
        /\ c[SkipSpace(c, i + 1)] \in Quoted

\* the directory d with file name written
WriteFile(d, name, content) ==
    [f \in DOMAIN d \cup {name} |-> IF f = name THEN content ELSE d[f]]

\* no sandbox yet
TfIdle ==
    /\ tfPc = "write"
    /\ tf_files = <<>>
    /\ tf_pending = {}
    /\ tf_dir = <<>>

\* the uploaded files of the project: main.tf, and possibly a backend.tf
InitTf ==
    /\ tfPc = "write"
    /\ \E main \in Contents(MaxItems), other \in {<<>>} \cup Items :
        tf_files = IF other = <<>>
                   THEN [f \in {"main.tf"} |-> main]
                   ELSE [f \in TfNames |-> IF f = "main.tf" THEN main ELSE other]
    /\ tf_pending = DOMAIN tf_files
    /\ tf_dir = <<>>

\* one iteration of 'for filename, content in tf_files.items()'
TfWriteFile ==
    /\ tfPc = "write"
    /\ tf_pending # {}
    /\ \E name \in tf_pending :
        /\ \A other \in tf_pending : name = "main.tf" \/ other # "main.tf"
        /\ tf_dir' = WriteFile(tf_dir, name, StripBackend(tf_files[name]))
        /\ tf_pending' = tf_pending \ {name}
    /\ UNCHANGED <<tfPc, tf_files>>
    /\ UNCHANGED <<wfVars, hubVars, depVars, backendVars, credVars, alVars,
                   gcpVars>>

\* setup_terraform_state: backend.tf is written after the uploaded files
TfSetupState ==
    /\ tfPc = "write"
    /\ tf_pending = {}
    /\ tf_dir' = WriteFile(tf_dir, "backend.tf", GeneratedBackend)
    /\ tfPc' = "init"
    /\ UNCHANGED <<tf_files, tf_pending>>
    /\ UNCHANGED <<wfVars, hubVars, depVars, backendVars, credVars, alVars,
                   gcpVars>>

\* terraform init runs in the directory
TfInit ==
    /\ tfPc = "init"
    /\ tfPc' = "done"
    /\ UNCHANGED <<tf_files, tf_pending, tf_dir>>
    /\ UNCHANGED <<wfVars, hubVars, depVars, backendVars, credVars, alVars,
                   gcpVars>>

NextTf ==
    \/ TfWriteFile
    \/ TfSetupState
    \/ TfInit

\* C20: when terraform init runs, no uploaded file of the Terraform
\* directory still holds a backend declaration of any type; the only
\* backend declaration is the generated backend.tf, written after all the
\* uploaded files.
C20_OnlyGeneratedBackend ==
    tfPc \in {"init", "done"} =>
        /\ tf_dir["backend.tf"] = GeneratedBackend
        /\ \A f \in DOMAIN tf_dir \ {"backend.tf"} : ~DeclaresBackend(tf_dir[f])

(***************************************************************************)
(* The GCP OAuth credentials: check_gcp_credentials                        *)
(* (src/src/utils/gcp_credentials_validator.py) and get_gcp_credentials    *)
(* (src/src/api/gcp_auth.py)                                               *)
(***************************************************************************)

\* the rows of gcp_credentials the call can find; the access token is the
\* one stored ("stored") until a refresh writes a new one ("refreshed").
\* live says whether the
\* stored access token is still accepted by Google; a token_expiry in the
\* past means it is not, one in the future or an update less than 50
\* minutes ago means it is.
GcpRows ==
    {r \in [present : BOOLEAN, project_match : BOOLEAN,
            token : {"stored"}, live : BOOLEAN,
            token_expiry : {"none", "past", "future"},
            updated_at : {"none", "recent", "old"},
            refresh_token : {"none", "valid", "revoked"}] :
        /\ r.token_expiry = "past" => ~r.live
        /\ r.token_expiry = "future" => r.live
        /\ r.updated_at = "recent" => r.live}

\* Credentials(token=..., refresh_token=..., token_uri=..., client_id=...,
\* client_secret=...): no expiry is passed, so credentials.expiry is None
CredentialsExpiry(row) == "none"

\* google.oauth2 Credentials.expired: False when the expiry is None
CredentialsExpired(expiry) == expiry = "past"

\* credentials.refresh(Request()): RefreshError for a revoked token, a
\* TransportError when the token endpoint cannot be reached
Refresh(refresh_token, net) ==
    IF net = "transport_error" THEN "transport_error"
    ELSE IF refresh_token = "valid" THEN "ok" ELSE "refresh_error"

\* UPDATE gcp_credentials SET access_token = encrypt(token), token_expiry =
\* credentials.expiry, updated_at = NOW()
UpdateRow(row) ==
    [row EXCEPT !.token = "refreshed", !.live = TRUE,
                !.token_expiry = "future", !.updated_at = "recent"]

Answer(st, reconnect, row) ==
    [result |-> [status |-> st, needs_reconnect |-> reconnect,
                 token |-> "none", raised |-> FALSE],
     row |-> row]

\* the refresh attempt of check_gcp_credentials, lines 131-190: the token
\* expiry has passed
RefreshExpired(row, read, net, update) ==
    IF read # "ok"
    THEN Answer("expired_not_refreshable", TRUE, row)
    ELSE IF row.refresh_token = "none"
    THEN Answer("expired_not_refreshable", TRUE, row)
    ELSE IF Refresh(row.refresh_token, net) # "ok"
    THEN Answer("expired_not_refreshable", TRUE, row)
    ELSE IF update # "ok"
    THEN Answer("expired_not_refreshable", TRUE, row)
    ELSE Answer("valid", FALSE, UpdateRow(row))

\* the refresh attempt of lines 208-273: the row was last updated more than
\* 50 minutes ago
RefreshStale(row, read, net, update) ==
    IF read # "ok"
    THEN Answer("expired_not_refreshable", TRUE, row)
    ELSE IF /\ CredentialsExpired(CredentialsExpiry(row))
            /\ row.refresh_token # "none"
    THEN IF Refresh(row.refresh_token, net) # "ok" \/ update # "ok"
         THEN Answer("expired_not_refreshable", TRUE, row)
         ELSE Answer("valid", FALSE, UpdateRow(row))
    ELSE IF row.refresh_token = "none"
    THEN Answer("expired_not_refreshable", TRUE, row)
    ELSE Answer("valid", FALSE, row)

\* check_gcp_credentials(user_id, project_id): first is the answer of
\* supabase.get_gcp_credentials, read that of the SELECT of
\* _get_gcp_credentials, net that of the token endpoint, update that of the
\* UPDATE
CheckGcpCredentials(row, with_project, first, read, net, update) ==
    IF first # "ok"
    THEN Answer("missing", FALSE, row)
    ELSE IF ~row.present \/ (with_project /\ ~row.project_match)
    THEN Answer("missing", FALSE, row)
    ELSE IF row.token_expiry = "past"
    THEN RefreshExpired(row, read, net, update)
    ELSE IF row.updated_at = "old"
    THEN RefreshStale(row, read, net, update)
    ELSE Answer("valid", FALSE, row)

\* get_gcp_credentials(user_id, project_id) of gcp_auth.py: the credentials
\* it returns, or the exception it raises
GetGcpCredentials(row, read, net, update) ==
    IF read # "ok" \/ ~row.present \/ ~row.project_match
    THEN [result |-> [status |-> "raised", needs_reconnect |-> FALSE,
                      token |-> "none", raised |-> TRUE],
          row |-> row]
    ELSE IF /\ CredentialsExpired(CredentialsExpiry(row))
            /\ row.refresh_token # "none"
    THEN IF Refresh(row.refresh_token, net) # "ok" \/ update # "ok"
         THEN [result |-> [status |-> "raised", needs_reconnect |-> FALSE,
                           token |-> "none", raised |-> TRUE],
               row |-> row]
         ELSE [result |-> [status |-> "returned", needs_reconnect |-> FALSE,
                           token |-> "refreshed", raised |-> FALSE],
               row |-> UpdateRow(row)]
    ELSE [result |-> [status |-> "returned", needs_reconnect |-> FALSE,
                      token |-> row.token, raised |-> FALSE],
          row |-> row]

NoResult == [status |-> "none", needs_reconnect |-> FALSE, token |-> "none",
             raised |-> FALSE]

\* the answers of the database and of the token endpoint
DbAnswers == {"ok", "error"}

NetAnswers == {"ok", "transport_error"}

InitGcp ==
    /\ gcp_row \in GcpRows
    /\ gcp_call = "none"
    /\ gcp_result = NoResult

\* no call is made: one of the initial states
GcpIdle ==
    /\ gcp_row = [present |-> FALSE, project_match |-> FALSE,
                  token |-> "stored", live |-> FALSE,
                  token_expiry |-> "none", updated_at |-> "none",
                  refresh_token |-> "none"]
    /\ gcp_call = "none"
    /\ gcp_result = NoResult

CallCheckGcpCredentials ==
    /\ gcp_call = "none"
    /\ \E with_project \in BOOLEAN, first \in DbAnswers, read \in DbAnswers,
          net \in NetAnswers, update \in DbAnswers :
        LET a == CheckGcpCredentials(gcp_row, with_project, first, read, net,
                                     update)
        IN  /\ gcp_result' = a.result
            /\ gcp_row' = a.row
    /\ gcp_call' = "check"
    /\ UNCHANGED <<wfVars, hubVars, depVars, backendVars, credVars, alVars,
                   tfVars>>

CallGetGcpCredentials ==
    /\ gcp_call = "none"
    /\ \E read \in DbAnswers, net \in NetAnswers, update \in DbAnswers :
        LET a == GetGcpCredentials(gcp_row, read, net, update)
        IN  /\ gcp_result' = a.result
            /\ gcp_row' = a.row
    /\ gcp_call' = "get"
    /\ UNCHANGED <<wfVars, hubVars, depVars, backendVars, credVars, alVars,
                   tfVars>>

NextGcp ==
    \/ CallCheckGcpCredentials
    \/ CallGetGcpCredentials

\* C25: check_gcp_credentials answers needs_reconnect = true only when the
\* refresh token is missing, invalid or revoked; a transient network error
\* during the refresh, a database error while the new token is stored, and
\* missing credentials never set it.
C25_ReconnectOnlyOnBrokenTrust ==
    (gcp_call = "check" /\ gcp_result.needs_reconnect)
        => gcp_row.refresh_token \in {"none", "revoked"}

\* C26: when the stored access token is expired and the refresh token is
\* valid, the credentials that are returned carry a refreshed token that
\* has been written back to the row; an expired token is never returned and
\* never reported as valid.
C26_RefreshBeforeReturn ==
    /\ (gcp_call = "get" /\ ~gcp_result.raised
          /\ gcp_row.refresh_token = "valid")
          => /\ gcp_row.live
             /\ gcp_result.token = gcp_row.token
    /\ (gcp_call = "check" /\ gcp_result.status = "valid"
          /\ gcp_row.refresh_token = "valid")
          => gcp_row.live

(***************************************************************************)
(* Claims about the two log stream consumers, checked under SpecConsumers. *)
(***************************************************************************)

\* the cleanup of each consumer has run at most once; it has run once when
\* the consumer ended by the sentinel, the timeout or a cancellation; a
\* cancellation that was delivered has ended the generator and left it as
\* the exception that was thrown in
C16_Cleanup ==
    /\ unregister_calls <= 1
    /\ unlisten_calls <= 1
    /\ close_calls <= 1
    /\ exit_cause = "cancel" => subPc = "closed"
    /\ (subPc = "closed" /\ exit_cause \in {"complete", "timeout", "cancel"})
          => unregister_calls = 1
    /\ stream_exit \in {"cancel", "cancel_history"} =>
          /\ alPc = "closed"
          /\ propagated \in {"CancelledError", "GeneratorExit"}
    /\ stream_exit \in {"sentinel", "timeout", "cancel"} =>
          /\ unlisten_calls = IF listen_cur THEN 1 ELSE 0
          /\ close_calls = IF listen_conn = "none" THEN 0 ELSE 1
          /\ listen_conn # "open"
          /\ ~listening
    /\ stream_exit \in {"sentinel", "timeout"} =>
          unlisten_calls = 1 /\ close_calls = 1

\* the step that delivers a cancellation yields nothing
C16_Step ==
    /\ (exit_cause' = "cancel" /\ exit_cause # "cancel")
          => frames' = frames /\ last_yield' = last_yield
    /\ (stream_exit' \in {"cancel", "cancel_history"} /\ stream_exit = None)
          => events' = events

\* C16: a cancellation or close delivered to a log stream consumer
\* (log_stream_generator, stream_agent_logs) while it is polling leaves the
\* generator as an exception, it is neither swallowed nor turned into an
\* error event; the consumer's cleanup (unregister_deployment; UNLISTEN and
\* close of the listener connection) runs exactly once when the stream ends
\* by the sentinel, by the timeout or by a cancellation.
C16_CancellationPropagates == []C16_Cleanup /\ [][C16_Step]_vars

\* the agent log stream was cancelled at its sleep(0) after it had yielded
\* a live event
C16_Witness ==
    /\ alPc = "closed"
    /\ stream_exit = "cancel"
    /\ propagated = "CancelledError"
    /\ rows = <<>>
    /\ events # <<>>
    /\ unlisten_calls = 1
    /\ close_calls = 1
    /\ listen_conn = "closed"

(***************************************************************************)
(* Specifications                                                          *)
(***************************************************************************)

\* the generation request has not started: one of its initial states
WfIdle == InitWf /\ hasSession /\ storage = {}

\* no deployment request has arrived for a project that was never built
DepIdle == InitDep /\ deployment_logs = <<>>

InitWfSpec == InitWf /\ InitHub /\ DepIdle /\ BackendIdle /\ InitCreds
              /\ InitAgentLogs /\ TfIdle /\ GcpIdle

SpecWf == InitWfSpec /\ [][NextWf]_vars

InitHubSpec == WfIdle /\ InitHub /\ DepIdle /\ BackendIdle /\ InitCreds
              /\ InitAgentLogs /\ TfIdle /\ GcpIdle

SpecHub == InitHubSpec /\ [][NextHub]_vars

\* the event loop resumes the generator while the response is being sent:
\* a sleep or a wait_for ends after its delay and the response iterator asks
\* for the next frame
SubProgress ==
    \/ SubWait
    \/ SubNotFoundReturn
    \/ SubGet
    \/ SubLogResume
    \/ SubPollTimeout
    \/ SubKeepaliveResume
    \/ SubBreak

\* the first client of the stream
SubConnectFirst == connections = 0 /\ SubConnect

\* the hub with one client
NextStream ==
    \/ OpRegister
    \/ OpSendLog
    \/ OpSendCompletion
    \/ SubConnectFirst
    \/ SubProgress
    \/ SubError
    \/ SubCancel

SpecHubLive == InitHubSpec /\ [][NextStream]_vars /\ WF_vars(SubProgress)

\* the deployment log stream and the agent log stream share no state: a
\* behaviour follows one of the two consumers
HubClient == alPc = "none" /\ agent_logs = <<>> /\ NextStream

AgentLogClient == subPc = "none" /\ opRun = 0 /\ NextAgentLogs

NextConsumers == HubClient \/ AgentLogClient

SpecConsumers == InitHubSpec /\ [][NextConsumers]_vars

InitDepSpec == WfIdle /\ InitHub /\ InitDep /\ BackendIdle /\ InitCreds
              /\ InitAgentLogs /\ TfIdle /\ GcpIdle

SpecDep == InitDepSpec /\ [][NextDep]_vars

InitBackendSpec == WfIdle /\ InitHub /\ DepIdle /\ InitBackend /\ InitCreds
              /\ InitAgentLogs /\ TfIdle /\ GcpIdle

SpecBackend == InitBackendSpec /\ [][NextBackend]_vars

InitCredsSpec == WfIdle /\ InitHub /\ DepIdle /\ BackendIdle /\ InitCreds
              /\ InitAgentLogs /\ TfIdle /\ GcpIdle

SpecCreds == InitCredsSpec /\ [][NextCreds]_vars

InitTfSpec == WfIdle /\ InitHub /\ DepIdle /\ BackendIdle /\ InitCreds
              /\ InitAgentLogs /\ InitTf /\ GcpIdle

SpecTf == InitTfSpec /\ [][NextTf]_vars

InitGcpSpec == WfIdle /\ InitHub /\ DepIdle /\ BackendIdle /\ InitCreds
              /\ InitAgentLogs /\ TfIdle /\ InitGcp

SpecGcp == InitGcpSpec /\ [][NextGcp]_vars

====
